---- MODULE Spec2Model ----
(***************************************************************************)
(* Import-cost scenario simulator (Import_Scenario_tool_DEV.py and its     *)
(* earlier revisions).  The simulator is a script that is re-executed on   *)
(* every user interaction; its state is the JSON stores on disk and the    *)
(* values computed by the last execution of the script.                    *)
(*                                                                         *)
(* Numbers: Python floats are modelled as exact rationals <<n, d>> with    *)
(* d > 0 and gcd(n, d) = 1, so that equalities between amounts are exact.  *)
(* Strings that the code converts (lower(), strip()) are sequences of      *)
(* one-character strings, so that the conversions are computed.            *)
(***************************************************************************)
EXTENDS Integers, Sequences, FiniteSets, TLC

VARIABLES data, products, origens_config, history, run, call

vars == <<data, products, origens_config, history, run, call>>

(***************************************************************************)
(* Rational arithmetic (Python float arithmetic, taken exactly).           *)
(***************************************************************************)
Abs(n) == IF n < 0 THEN 0 - n ELSE n

RECURSIVE GCD(_, _)
GCD(a, b) == IF b = 0 THEN a ELSE GCD(b, a % b)

Norm(n, d) ==
    LET g == GCD(Abs(n), d) IN <<n \div g, d \div g>>

Rat(n, d) == Norm(n, d)
Q(n) == <<n, 1>>
ZERO == Q(0)
RAdd(a, b) == Norm(a[1] * b[2] + b[1] * a[2], a[2] * b[2])
RMul(a, b) == Norm(a[1] * b[1], a[2] * b[2])
RLess(a, b) == a[1] * b[2] < b[1] * a[2]
RLeq(a, b) == a[1] * b[2] <= b[1] * a[2]
RPos(a) == a[1] > 0

\* Python's a / b on floats: raises ZeroDivisionError when b == 0.
ZeroDivisionError == <<0, 0>>
RDiv(a, b) ==
    IF b[1] = 0 THEN ZeroDivisionError
    ELSE IF b[1] > 0 THEN Norm(a[1] * b[2], a[2] * b[1])
    ELSE Norm(0 - a[1] * b[2], a[2] * (0 - b[1]))

RECURSIVE RSum(_)
RSum(s) == IF s = <<>> THEN ZERO ELSE RAdd(Head(s), RSum(Tail(s)))

(***************************************************************************)
(* str.lower() and str.strip() on sequences of characters.                 *)
(***************************************************************************)
LowerChar(c) ==
    CASE c = "A" -> "a" [] c = "B" -> "b" [] c = "C" -> "c" [] c = "D" -> "d"
      [] c = "E" -> "e" [] c = "F" -> "f" [] c = "I" -> "i" [] c = "J" -> "j"
      [] c = "L" -> "l" [] c = "N" -> "n" [] c = "O" -> "o" [] c = "P" -> "p"
      [] c = "R" -> "r" [] c = "S" -> "s" [] c = "T" -> "t" [] c = "V" -> "v"
      [] OTHER -> c

lower(s) == [i \in 1..Len(s) |-> LowerChar(s[i])]

RECURSIVE lstrip(_)
lstrip(s) == IF s # <<>> /\ Head(s) = " " THEN lstrip(Tail(s)) ELSE s

RECURSIVE rstrip(_)
rstrip(s) ==
    IF s # <<>> /\ s[Len(s)] = " " THEN rstrip(SubSeq(s, 1, Len(s) - 1)) ELSE s

strip(s) == rstrip(lstrip(s))

\* The string literals of the code that take part in a conversion.
VALOR_CIF == <<"V","a","l","o","r"," ","C","I","F">>
VALOR_FOB == <<"V","a","l","o","r"," ","F","O","B">>
FRETE_INTERNACIONAL ==
    <<"F","r","e","t","e"," ","I","n","t","e","r","n","a","c","i","o","n","a","l">>
valor_fob_lc == <<"v","a","l","o","r"," ","f","o","b">>
frete_internacional_lc ==
    <<"f","r","e","t","e"," ","i","n","t","e","r","n","a","c","i","o","n","a","l">>
teste_lc == <<"t","e","s","t","e">>

(***************************************************************************)
(* Python dicts.  A dict whose order matters (the stores, whose items()    *)
(* are iterated) is a sequence of <<key, value>> pairs with distinct keys; *)
(* a dict that is only looked up is a function on its keys.                *)
(***************************************************************************)
Get(d, k, default) == IF k \in DOMAIN d THEN d[k] ELSE default

DictSet(d, k, v) == [x \in (DOMAIN d) \cup {k} |-> IF x = k THEN v ELSE d[x]]

Keys(items) == {items[i][1] : i \in 1..Len(items)}

Lookup(items, k) == items[CHOOSE i \in 1..Len(items) : items[i][1] = k][2]

\* A cost-field entry of a scenario is either a bare number (legacy) or a dict.
Num(v) == [dict |-> FALSE, v |-> v]
Dict(d) == [dict |-> TRUE, d |-> d]
isinstance_dict(conf) == conf.dict

(***************************************************************************)
(* Cálculo de Custos dos Cenários.  config is the scenario's dict of cost  *)
(* fields in items() order: a sequence of <<field, conf>>.                 *)
(***************************************************************************)
converted_bases == {valor_fob_lc, frete_internacional_lc}

\* cost_value with every dict entry prorated, whatever its flag.
cost_value_always_prorated(conf, base_values, taxa_cambio, occupancy_fraction) ==
    IF ~isinstance_dict(conf) THEN conf.v
    ELSE
      LET field_type == Get(conf.d, "type", "fixed")
          base == Get(conf.d, "base", <<>>)
          base_val0 == Get(base_values, base, ZERO)
          base_val == IF strip(lower(base)) \in converted_bases
                      THEN RMul(base_val0, taxa_cambio)
                      ELSE base_val0
          v == IF field_type = "fixed" THEN Get(conf.d, "value", ZERO)
               ELSE IF field_type = "percentage"
                    THEN RMul(base_val, Get(conf.d, "rate", ZERO))
               ELSE ZERO
      IN RMul(v, occupancy_fraction)

\* cost_value with every base converted, Valor CIF included.
cost_value_all_converted(conf, base_values, taxa_cambio, occupancy_fraction) ==
    IF ~isinstance_dict(conf) THEN conf.v
    ELSE
      LET field_type == Get(conf.d, "type", "fixed")
          rate_by_occupancy == Get(conf.d, "rate_by_occupancy", FALSE)
          base_val == RMul(Get(base_values, Get(conf.d, "base", <<>>), ZERO),
                           taxa_cambio)
          v == IF field_type = "fixed" THEN Get(conf.d, "value", ZERO)
               ELSE IF field_type = "percentage"
                    THEN RMul(base_val, Get(conf.d, "rate", ZERO))
               ELSE ZERO
      IN IF rate_by_occupancy THEN RMul(v, occupancy_fraction) ELSE v

\* cost_value with a bare number prorated like a flagged field.
cost_value_legado_rateado(conf, base_values, taxa_cambio, occupancy_fraction) ==
    IF ~isinstance_dict(conf) THEN RMul(conf.v, occupancy_fraction)
    ELSE
      LET field_type == Get(conf.d, "type", "fixed")
          rate_by_occupancy == Get(conf.d, "rate_by_occupancy", FALSE)
          base == Get(conf.d, "base", <<>>)
          rate == Get(conf.d, "rate", ZERO)
          base_val0 == Get(base_values, base, ZERO)
          base_val == IF strip(lower(base)) \in converted_bases
                      THEN RMul(base_val0, taxa_cambio)
                      ELSE base_val0
          v == IF field_type = "fixed" THEN Get(conf.d, "value", ZERO)
               ELSE IF field_type = "percentage" THEN RMul(base_val, rate)
               ELSE ZERO
      IN IF rate_by_occupancy THEN RMul(v, occupancy_fraction) ELSE v

\* One iteration of the loop of calculate_total_cost_extended: the value of
\* cost_value that is added to extra for the entry conf.
cost_value(conf, base_values, taxa_cambio, occupancy_fraction) ==
    IF ~isinstance_dict(conf) THEN conf.v
    ELSE
      LET field_type == Get(conf.d, "type", "fixed")
          rate_by_occupancy == Get(conf.d, "rate_by_occupancy", FALSE)
          base == Get(conf.d, "base", <<>>)
          rate == Get(conf.d, "rate", ZERO)
          base_val0 == Get(base_values, base, ZERO)
          base_val == IF strip(lower(base)) \in converted_bases
                      THEN RMul(base_val0, taxa_cambio)
                      ELSE base_val0
          v == IF field_type = "fixed" THEN Get(conf.d, "value", ZERO)
               ELSE IF field_type = "percentage" THEN RMul(base_val, rate)
               ELSE ZERO
      IN IF rate_by_occupancy THEN RMul(v, occupancy_fraction) ELSE v

cost_values(config, base_values, taxa_cambio, occupancy_fraction) ==
    [i \in 1..Len(config) |->
        cost_value(config[i][2], base_values, taxa_cambio, occupancy_fraction)]

\* "extra = cost_value" in the place of "extra += cost_value".
calculate_total_cost_so_ultimo(config, base_values, taxa_cambio, occupancy_fraction) ==
    LET values == cost_values(config, base_values, taxa_cambio, occupancy_fraction)
        extra == IF values = <<>> THEN ZERO ELSE values[Len(values)]
    IN RAdd(Get(base_values, VALOR_CIF, ZERO), extra)

calculate_total_cost_extended(config, base_values, taxa_cambio, occupancy_fraction) ==
    LET extra == RSum(cost_values(config, base_values, taxa_cambio, occupancy_fraction))
    IN RAdd(Get(base_values, VALOR_CIF, ZERO), extra)

(***************************************************************************)
(* Cálculo dos Impostos do Produto.                                        *)
(***************************************************************************)
TAXES == <<"imposto_importacao", "ipi", "pis", "cofins">>
None == [x \in {} |-> ZERO]
Truthy(d) == DOMAIN d # {}

\* The tax with the CIF value used for a base that is not found.
tax_amount_base_cif(tax_info, base_values) ==
    IF Truthy(tax_info)
    THEN LET base_name == Get(tax_info, "base", <<>>)
             base_val == Get(base_values, base_name, Get(base_values, VALOR_CIF, ZERO))
         IN RMul(base_val, Get(tax_info, "rate", ZERO))
    ELSE ZERO

tax_amount(tax_info, base_values) ==
    IF Truthy(tax_info)
    THEN LET base_name == Get(tax_info, "base", <<>>)
             base_val == Get(base_values, base_name, ZERO)
         IN RMul(base_val, Get(tax_info, "rate", ZERO))
    ELSE ZERO

\* The taxes with the USD bases converted as the scenario evaluator does.
calculate_product_taxes_convertido(product, base_values, taxa_cambio, occupancy_fraction) ==
    [tax \in {TAXES[i] : i \in 1..Len(TAXES)} |->
        LET tax_info == Get(product, tax, None)
            base_name == Get(tax_info, "base", <<>>)
            amount == tax_amount(tax_info, base_values)
        IN IF strip(lower(base_name)) \in converted_bases
           THEN RMul(amount, taxa_cambio) ELSE amount]

calculate_product_taxes(product, base_values, taxa_cambio, occupancy_fraction) ==
    [tax \in {TAXES[i] : i \in 1..Len(TAXES)} |->
        tax_amount(Get(product, tax, None), base_values)]

\* sum(product_taxes.values())
sum_values(taxes) == RSum([i \in 1..Len(TAXES) |-> taxes[TAXES[i]]])

(***************************************************************************)
(* The CIF block of the simulator (the same statements in both modes).     *)
(***************************************************************************)
INSURANCE_RATE == Rat(15, 10000)
HUNDRED == Q(100)

occupancy_fraction_of(percentual_ocupacao_conteiner) ==
    RDiv(percentual_ocupacao_conteiner, HUNDRED)

\* The insurance taken on the FOB value in USD: the exchange rate is left out.
seguro_sem_cambio(valor_fob_usd, taxa_cambio) ==
    RMul(INSURANCE_RATE, valor_fob_usd)

seguro_of(valor_fob_usd, taxa_cambio) ==
    RMul(INSURANCE_RATE, RMul(valor_fob_usd, taxa_cambio))

valor_cif_of(valor_fob_usd, frete_internacional_usd_rateado, taxa_cambio) ==
    LET valor_cif_base ==
            RMul(RAdd(valor_fob_usd, frete_internacional_usd_rateado), taxa_cambio)
    IN RAdd(valor_cif_base, seguro_of(valor_fob_usd, taxa_cambio))

\* The freight without its share of the container.
frete_rateado_inteiro(frete_internacional_usd, occupancy_fraction) ==
    frete_internacional_usd

\* frete_internacional_usd_rateado = frete_internacional_usd * occupancy_fraction
frete_rateado_of(frete_internacional_usd, occupancy_fraction) ==
    RMul(frete_internacional_usd, occupancy_fraction)

base_values_of(valor_cif, valor_fob_usd, frete_internacional_usd_rateado) ==
    (VALOR_CIF :> valor_cif) @@ (VALOR_FOB :> valor_fob_usd)
      @@ (FRETE_INTERNACIONAL :> frete_internacional_usd_rateado)

(***************************************************************************)
(* MÓDULO: SIMULADOR DE CENÁRIOS.  ctx holds the values the script has     *)
(* computed before it enters the loop over the scenarios.                  *)
(***************************************************************************)
\* if "teste" in scenario.lower(): continue
is_teste_substring(scenario) ==
    \E i \in 1..(Len(scenario) - Len(teste_lc) + 1) :
        SubSeq(lower(scenario), i, i + Len(teste_lc) - 1) = teste_lc

\* if scenario.lower() == "teste": continue
is_teste(scenario) == lower(scenario) = teste_lc

\* The tem_valor test with >= 0 in the place of > 0.
tem_valor_field_nao_negativo(conf, base_values, taxa_cambio) ==
    IF isinstance_dict(conf)
    THEN LET field_type == Get(conf.d, "type", "fixed")
             base_name == Get(conf.d, "base", <<>>)
             base_val0 == Get(base_values, base_name, ZERO)
             base_val == IF strip(lower(base_name)) \in converted_bases
                         THEN RMul(base_val0, taxa_cambio)
                         ELSE base_val0
         IN IF field_type = "fixed" /\ RLeq(ZERO, Get(conf.d, "value", ZERO)) THEN TRUE
            ELSE IF field_type = "percentage"
                 THEN RLeq(ZERO, RMul(base_val, Get(conf.d, "rate", ZERO)))
                 ELSE FALSE
    ELSE RLeq(ZERO, conf.v)

\* The body of the loop that sets tem_valor, for one entry of the scenario.
tem_valor_field(conf, base_values, taxa_cambio) ==
    IF isinstance_dict(conf)
    THEN LET field_type == Get(conf.d, "type", "fixed")
             base_name == Get(conf.d, "base", <<>>)
             base_val0 == Get(base_values, base_name, ZERO)
             base_val == IF strip(lower(base_name)) \in converted_bases
                         THEN RMul(base_val0, taxa_cambio)
                         ELSE base_val0
         IN IF field_type = "fixed" /\ RPos(Get(conf.d, "value", ZERO)) THEN TRUE
            ELSE IF field_type = "percentage"
                 THEN RPos(RMul(base_val, Get(conf.d, "rate", ZERO)))
                 ELSE FALSE
    ELSE RPos(conf.v)

tem_valor(config, base_values, taxa_cambio) ==
    \E i \in 1..Len(config) : tem_valor_field(config[i][2], base_values, taxa_cambio)

\* The per-field breakdown written into the result row.
field_val(conf, base_values, taxa_cambio, occupancy_fraction) ==
    IF isinstance_dict(conf)
    THEN LET field_type == Get(conf.d, "type", "fixed")
             rate_by_occupancy == Get(conf.d, "rate_by_occupancy", FALSE)
             base_name == Get(conf.d, "base", <<>>)
             base_val0 == Get(base_values, base_name, ZERO)
             base_val == IF strip(lower(base_name)) \in converted_bases
                         THEN RMul(base_val0, taxa_cambio)
                         ELSE base_val0
             v == IF field_type = "fixed" THEN Get(conf.d, "value", ZERO)
                  ELSE IF field_type = "percentage"
                       THEN RMul(base_val, Get(conf.d, "rate", ZERO))
                       ELSE ZERO
         IN IF rate_by_occupancy THEN RMul(v, occupancy_fraction) ELSE v
    ELSE conf.v

RECURSIVE set_fields(_, _, _)
set_fields(row, config, ctx) ==
    IF config = <<>> THEN row
    ELSE set_fields(
           DictSet(row, Head(config)[1],
                   field_val(Head(config)[2], ctx.base_values, ctx.taxa_cambio,
                             ctx.occupancy_fraction)),
           Tail(config), ctx)

\* if quantidade >= 0: row["Custo Unitário Final"] = final_cost / quantidade
unit_cost_due_nao_negativo(quantidade) == RLeq(ZERO, quantidade)

\* if quantidade > 0: row["Custo Unitário Final"] = final_cost / quantidade
unit_cost_due(quantidade) == RPos(quantidade)

set_unit_cost(row, final_cost, quantidade) ==
    IF unit_cost_due(quantidade)
    THEN DictSet(row, "Custo Unitário Final", RDiv(final_cost, quantidade))
    ELSE row

\* final_cost without the product taxes.
final_cost_sem_impostos(scenario_cost, taxas_frete_brl_rateada, total_product_taxes) ==
    RAdd(scenario_cost, taxas_frete_brl_rateada)

\* final_cost of one scenario: the evaluator's cost, the prorated freight fees
\* and the product taxes.
final_cost_of(scenario_cost, taxas_frete_brl_rateada, total_product_taxes) ==
    LET base_cost == RAdd(scenario_cost, taxas_frete_brl_rateada)
    IN RAdd(base_cost, total_product_taxes)

set_product_taxes(row, ctx) ==
    IF ctx.has_product
    THEN DictSet(DictSet(DictSet(DictSet(row,
           "II", Get(ctx.product_taxes, "imposto_importacao", ZERO)),
           "IPI", Get(ctx.product_taxes, "ipi", ZERO)),
           "Pis", Get(ctx.product_taxes, "pis", ZERO)),
           "Cofins", Get(ctx.product_taxes, "cofins", ZERO))
    ELSE row

\* One result of the single-branch loop: the entry costs[scenario], with the
\* locals scenario_cost and final_cost of that iteration.
single_entry(scenario, config, ctx) ==
    LET scenario_cost == calculate_total_cost_extended(
            config, ctx.base_values, ctx.taxa_cambio, ctx.occupancy_fraction)
        final_cost == final_cost_of(scenario_cost, ctx.taxas_frete_brl_rateada,
                                    ctx.total_product_taxes)
        row0 == ("Valor FOB" :> ctx.valor_fob_usd)
                  @@ ("Frete internacional" :> ctx.frete_internacional_usd_rateado)
                  @@ ("Valor CIF com seguro" :> ctx.valor_cif)
                  @@ ("Custo final" :> final_cost)
        row1 == set_fields(set_unit_cost(row0, final_cost, ctx.quantidade), config, ctx)
        row2 == DictSet(set_product_taxes(row1, ctx),
                        "Taxas Frete (BRL) Rateadas", ctx.taxas_frete_brl_rateada)
    IN [key |-> scenario, filial |-> ctx.filial, scenario |-> scenario, row |-> row2,
        scenario_cost |-> scenario_cost, final_cost |-> final_cost]

multi_entry(filial, scenario, config, ctx) ==
    LET scenario_cost == calculate_total_cost_extended(
            config, ctx.base_values, ctx.taxa_cambio, ctx.occupancy_fraction)
        final_cost == final_cost_of(scenario_cost, ctx.taxas_frete_brl_rateada,
                                    ctx.total_product_taxes)
        row0 == ("Filial" :> filial) @@ ("Cenário" :> scenario)
                  @@ ("Valor FOB" :> ctx.valor_fob_usd)
                  @@ ("Frete internacional" :> ctx.frete_internacional_usd_rateado)
                  @@ ("Valor CIF com seguro" :> ctx.valor_cif)
                  @@ ("Custo final" :> final_cost)
        row1 == set_fields(set_unit_cost(row0, final_cost, ctx.quantidade), config, ctx)
        row2 == DictSet(row1, "Taxas Frete (BRL) Rateadas", ctx.taxas_frete_brl_rateada)
    IN [key |-> <<filial, scenario>>, filial |-> filial, scenario |-> scenario,
        row |-> set_product_taxes(row2, ctx),
        scenario_cost |-> scenario_cost, final_cost |-> final_cost]

\* The scenario is kept by the loop (neither "continue" is taken).
qualifies(scenario, config, ctx) ==
    /\ ~is_teste(scenario)
    /\ tem_valor(config, ctx.base_values, ctx.taxa_cambio)

\* for scenario, config in data[filial].items(): ...
RECURSIVE filial_entries(_, _, _, _)
filial_entries(filial, scenarios, ctx, multi) ==
    IF scenarios = <<>> THEN <<>>
    ELSE LET scenario == Head(scenarios)[1]
             config == Head(scenarios)[2]
             rest == filial_entries(filial, Tail(scenarios), ctx, multi)
         IN IF qualifies(scenario, config, ctx)
            THEN <<IF multi THEN multi_entry(filial, scenario, config, ctx)
                            ELSE single_entry(scenario, config, ctx)>> \o rest
            ELSE rest

\* for filial in filiais_multi: if filial not in data: continue ...
RECURSIVE multi_entries(_, _, _)
multi_entries(filiais_multi, d, ctx) ==
    IF filiais_multi = <<>> THEN <<>>
    ELSE LET filial == Head(filiais_multi)
             rest == multi_entries(Tail(filiais_multi), d, ctx)
         IN IF filial \in Keys(d)
            THEN filial_entries(filial, Lookup(d, filial), ctx, TRUE) \o rest
            ELSE rest

(***************************************************************************)
(* DataFrame.sort_values(by="Custo final"): ascending; the default sort    *)
(* kind is not a stable one, so the order of rows with equal keys is any.  *)
(***************************************************************************)
Permutations_of(n) ==
    {p \in [1..n -> 1..n] : \A i, j \in 1..n : i # j => p[i] # p[j]}

\* sort_values(by="Custo final", ascending=False)
descending(a, b) == RLeq(b, a)

ascending(a, b) == RLeq(a, b)

sort_values(entries) ==
    {[i \in 1..Len(entries) |-> entries[p[i]]] : p \in
        {q \in Permutations_of(Len(entries)) :
            \A i \in 1..(Len(entries) - 1) :
                ascending(entries[q[i]].row["Custo final"],
                          entries[q[i + 1]].row["Custo final"])}}

(***************************************************************************)
(* One execution of the simulator part of the script.                      *)
(***************************************************************************)
SIMULADOR_UNICO == "Simulador único"
COMPARACAO_MULTIFILIAL == "Comparação multifilial"

\* The values of a run that has not computed anything.
NoRun(outcome, sim_mode) ==
    [outcome |-> outcome, sim_mode |-> sim_mode, salvo |-> FALSE,
     save_button |-> FALSE, filial |-> <<>>, filiais_multi |-> <<>>,
     modo_valor_fob |-> "", valor_fob_usd |-> ZERO, quantidade |-> ZERO,
     valor_unit_fob_usd |-> ZERO, origem |-> <<>>,
     frete_internacional_usd |-> ZERO, taxas_frete_brl |-> ZERO,
     percentual_ocupacao_conteiner |-> ZERO, occupancy_fraction |-> ZERO,
     frete_internacional_usd_rateado |-> ZERO, taxas_frete_brl_rateada |-> ZERO,
     taxa_cambio |-> ZERO, seguro |-> ZERO, valor_cif |-> ZERO,
     base_values |-> None, product_key |-> <<>>, has_product |-> FALSE,
     product_taxes |-> None, total_product_taxes |-> ZERO,
     costs |-> <<>>, df |-> <<>>, best_filial |-> <<>>, best_scenario |-> <<>>,
     best_cost |-> ZERO]

\* The FOB entry block.  literal is the string the script compares the
\* selected mode with.
fob_block(modo_valor_fob, literal, w) ==
    IF modo_valor_fob = literal
    THEN [valor_fob_usd |-> w.valor_fob_usd, quantidade |-> Q(1),
          valor_unit_fob_usd |-> ZERO]
    ELSE [valor_fob_usd |-> RMul(w.valor_unit_fob_usd, w.quantidade),
          quantidade |-> w.quantidade,
          valor_unit_fob_usd |-> w.valor_unit_fob_usd]

\* origens_config lookup: the selected origin's freight and fees, 0.0 when no
\* origin is configured.
origem_block(origens, origem) ==
    IF origens # <<>>
    THEN [frete_internacional_usd |-> Lookup(origens, origem).frete_internacional_usd,
          taxas_frete_brl |-> Lookup(origens, origem).taxas_frete_brl]
    ELSE [frete_internacional_usd |-> ZERO, taxas_frete_brl |-> ZERO]

\* Seleção de produto: product is products[product_key], None without products.
product_of(prods, product_key) ==
    IF prods # <<>> THEN Lookup(prods, product_key) ELSE None

\* Everything the script computes from the widgets before the scenario loop.
\* w: the widget values; literal: see fob_block.
ctx_of(w, literal, prods, origens) ==
    LET fob == fob_block(w.modo_valor_fob, literal, w)
        org == origem_block(origens, w.origem)
        occupancy_fraction == occupancy_fraction_of(w.percentual_ocupacao_conteiner)
        frete_rateado == frete_rateado_of(org.frete_internacional_usd,
                                          occupancy_fraction)
        taxas_rateada == RMul(org.taxas_frete_brl, occupancy_fraction)
        valor_cif == valor_cif_of(fob.valor_fob_usd, frete_rateado, w.taxa_cambio)
        base_values == base_values_of(valor_cif, fob.valor_fob_usd, frete_rateado)
        product == product_of(prods, w.product_key)
        has_product == Truthy(product)
        product_taxes == IF has_product
                         THEN calculate_product_taxes(product, base_values,
                                                      w.taxa_cambio, occupancy_fraction)
                         ELSE None
    IN [filial |-> w.filial, filiais_multi |-> w.filiais_multi,
        modo_valor_fob |-> w.modo_valor_fob,
        valor_fob_usd |-> fob.valor_fob_usd, quantidade |-> fob.quantidade,
        valor_unit_fob_usd |-> fob.valor_unit_fob_usd, origem |-> w.origem,
        frete_internacional_usd |-> org.frete_internacional_usd,
        taxas_frete_brl |-> org.taxas_frete_brl,
        percentual_ocupacao_conteiner |-> w.percentual_ocupacao_conteiner,
        occupancy_fraction |-> occupancy_fraction,
        frete_internacional_usd_rateado |-> frete_rateado,
        taxas_frete_brl_rateada |-> taxas_rateada,
        taxa_cambio |-> w.taxa_cambio,
        seguro |-> seguro_of(fob.valor_fob_usd, w.taxa_cambio),
        valor_cif |-> valor_cif, base_values |-> base_values,
        product_key |-> IF prods # <<>> THEN w.product_key ELSE <<>>,
        has_product |-> has_product, product_taxes |-> product_taxes,
        total_product_taxes |-> IF has_product THEN sum_values(product_taxes) ELSE ZERO]

\* The result branch with the save button rendered after the if/else.
result_of_botao_sempre(ctx, sim_mode, costs, df) ==
    IF costs # <<>>
    THEN ctx @@ [outcome |-> "ranking", sim_mode |-> sim_mode, salvo |-> FALSE,
                 save_button |-> TRUE, costs |-> costs, df |-> df,
                 best_filial |-> IF sim_mode = COMPARACAO_MULTIFILIAL
                                 THEN df[1].row["Filial"] ELSE <<>>,
                 best_scenario |-> IF sim_mode = COMPARACAO_MULTIFILIAL
                                   THEN df[1].row["Cenário"] ELSE df[1].key,
                 best_cost |-> df[1].row["Custo final"]]
    ELSE ctx @@ [outcome |-> "nenhuma_configuracao", sim_mode |-> sim_mode,
                 salvo |-> FALSE, save_button |-> TRUE, costs |-> <<>>, df |-> <<>>,
                 best_filial |-> <<>>, best_scenario |-> <<>>, best_cost |-> ZERO]

\* The result branch: "if costs:" shows the ranking, names the best scenario
\* and renders the save button; otherwise the warning is shown.
result_of(ctx, sim_mode, costs, df) ==
    IF costs # <<>>
    THEN ctx @@ [outcome |-> "ranking", sim_mode |-> sim_mode, salvo |-> FALSE,
                 save_button |-> TRUE, costs |-> costs, df |-> df,
                 best_filial |-> IF sim_mode = COMPARACAO_MULTIFILIAL
                                 THEN df[1].row["Filial"] ELSE <<>>,
                 best_scenario |-> IF sim_mode = COMPARACAO_MULTIFILIAL
                                   THEN df[1].row["Cenário"] ELSE df[1].key,
                 best_cost |-> df[1].row["Custo final"]]
    ELSE ctx @@ [outcome |-> "nenhuma_configuracao", sim_mode |-> sim_mode,
                 salvo |-> FALSE, save_button |-> FALSE, costs |-> <<>>, df |-> <<>>,
                 best_filial |-> <<>>, best_scenario |-> <<>>, best_cost |-> ZERO]

MODO_UNICO == {"Valor total", "Unitário × Quantidade"}
MODO_MULTI == {"Valor Total", "Unitário × Quantidade"}

(***************************************************************************)
(* Histórico de Simulações (simulation_history.json).                      *)
(***************************************************************************)
\* A JSON store on disk: the file is missing, or holds a text.  A text is a
\* sequence of tokens: white space, a well-formed JSON document (with the
\* value it denotes), or characters that are not JSON.
WS == [t |-> "ws"]
JUNK == [t |-> "junk"]
DOC(v) == [t |-> "doc", v |-> v]

Missing == [exists |-> FALSE, text |-> <<>>]
File(text) == [exists |-> TRUE, text |-> text]

\* The outcome of a call: a returned value or a raised exception.
Returned(v) == [raised |-> "", value |-> v]
Raised(e) == [raised |-> e]

\* str.strip() on the text of a file.
RECURSIVE text_lstrip(_)
text_lstrip(text) ==
    IF text # <<>> /\ Head(text).t = "ws" THEN text_lstrip(Tail(text)) ELSE text

RECURSIVE text_rstrip(_)
text_rstrip(text) ==
    IF text # <<>> /\ text[Len(text)].t = "ws"
    THEN text_rstrip(SubSeq(text, 1, Len(text) - 1)) ELSE text

text_strip(text) == text_rstrip(text_lstrip(text))

\* json.loads / json.load: white space around the document is skipped;
\* anything but exactly one document raises json.JSONDecodeError.
json_loads(text) ==
    LET body == text_strip(text)
    IN IF Len(body) = 1 /\ body[1].t = "doc" THEN Returned(body[1].v)
       ELSE Raised("JSONDecodeError")

\* json.dump(value, f, indent=4) into a file opened with "w".
json_dump(value) == File(<<DOC(value)>>)

load_data(file) ==
    IF file.exists THEN json_loads(file.text) ELSE Returned(<<>>)

\* load_history without the try/except and the empty-content test.
load_history_sem_try(file) ==
    IF file.exists THEN json_loads(file.text) ELSE Returned(<<>>)

load_history(file) ==
    IF file.exists
    THEN LET conteudo == text_strip(file.text)
         IN IF conteudo = <<>> THEN Returned(<<>>)
            ELSE LET parsed == json_loads(conteudo)
                 IN IF parsed.raised = "JSONDecodeError" THEN Returned(<<>>)
                    ELSE parsed
    ELSE Returned(<<>>)

\* The file is rewritten with the newest record only.
save_history_so_ultimo(h) == json_dump(SubSeq(h, Len(h), Len(h)))

save_history(h) == json_dump(h)

load_products(file) ==
    IF file.exists
    THEN LET conteudo == text_strip(file.text)
         IN IF conteudo = <<>> THEN Returned(<<>>)
            ELSE LET parsed == json_loads(conteudo)
                 IN IF parsed.raised = "JSONDecodeError" THEN Returned(<<>>)
                    ELSE parsed
    ELSE Returned(<<>>)

NaN == <<1, 0>>

\* df_multi.to_dict(orient="index") after the index is joined with " | ":
\* every row gets every column of the frame, NaN where it has no value.
to_dict_index(df) ==
    LET columns == UNION {DOMAIN df[i].row : i \in 1..Len(df)}
    IN [i \in 1..Len(df) |->
          <<df[i].key[1] \o <<" ", "|", " ">> \o df[i].key[2],
            [c \in columns |-> Get(df[i].row, c, NaN)]>>]

results_of(costs) == [i \in 1..Len(costs) |-> <<costs[i].key, costs[i].row>>]

\* if quantidade > 0: simulation_record["custo_unitario_melhor"] = best_cost / quantidade
record_unit_cost_due(quantidade) == RPos(quantidade)

common_record(r, timestamp) ==
    [timestamp |-> timestamp, modo_valor_fob |-> r.modo_valor_fob,
     valor_unit_fob_usd |-> r.valor_unit_fob_usd, quantidade |-> r.quantidade,
     valor_fob_usd |-> r.valor_fob_usd,
     frete_internacional_usd |-> r.frete_internacional_usd,
     percentual_ocupacao_conteiner |-> r.percentual_ocupacao_conteiner,
     frete_internacional_usd_rateado |-> r.frete_internacional_usd_rateado,
     taxas_frete_brl |-> r.taxas_frete_brl,
     taxas_frete_brl_rateada |-> r.taxas_frete_brl_rateada,
     taxa_cambio |-> r.taxa_cambio, seguro_0_15_valor_fob |-> r.seguro,
     valor_cif |-> r.base_values[VALOR_CIF], best_scenario |-> r.best_scenario,
     best_cost |-> r.best_cost, final_cost_com_impostos |-> r.best_cost]

with_produto(rec, r, prods) ==
    IF r.has_product
    THEN rec @@ [produto |-> [ncm |-> r.product_key,
                              descricao |-> Get(Lookup(prods, r.product_key),
                                                "descricao", "")],
                 product_taxes |-> r.product_taxes]
    ELSE rec

\* The record built by "Salvar Simulação no Histórico".
simulation_record(r, timestamp, prods) ==
    LET rec == with_produto(
                 common_record(r, timestamp)
                   @@ [filial |-> r.filial, results |-> results_of(r.costs),
                       multi_comparison |-> FALSE], r, prods)
    IN IF record_unit_cost_due(r.quantidade)
       THEN rec @@ [custo_unitario_melhor |-> RDiv(r.best_cost, r.quantidade)]
       ELSE rec

\* The record built by "Salvar comparação no histórico".
comparison_record(r, timestamp, prods) ==
    with_produto(
      common_record(r, timestamp)
        @@ [multi_comparison |-> TRUE, filiais_multi |-> r.filiais_multi,
            best_filial |-> r.best_filial, results |-> to_dict_index(r.df)],
      r, prods)

\* datetime.now(), to the second.  Only the order and the equality of the
\* timestamps matter: a record is stamped with the second of the newest
\* persisted record or with a later one.
Now(h) == IF h = <<>> THEN {1}
          ELSE {h[Len(h)].timestamp, h[Len(h)].timestamp + 1}

MaxHistory == 2

(***************************************************************************)
(* The script in "Simulador único" mode, executed with the widget values w;*)
(* clicked: the run was triggered by the save button.                      *)
(***************************************************************************)
SingleScript(w, clicked) ==
    LET ctx == ctx_of(w, "Valor Total", products, origens_config)
        costs == IF w.filial \in Keys(data)
                 THEN filial_entries(w.filial, Lookup(data, w.filial), ctx, FALSE)
                 ELSE <<>>
    IN IF costs # <<>>
       THEN \E df \in sort_values(costs) :
              \E r \in {result_of(ctx, SIMULADOR_UNICO, costs, df) @@ [widgets |-> w]} :
                 IF clicked
                 THEN \E h \in {load_history(history).value} :
                      \E t \in Now(h) :
                        /\ history' = save_history(
                             Append(h, simulation_record(r, t, products)))
                        /\ run' = [r EXCEPT !.salvo = TRUE]
                 ELSE run' = r /\ UNCHANGED history
       ELSE /\ run' = result_of(ctx, SIMULADOR_UNICO, <<>>, <<>>) @@ [widgets |-> w]
            /\ UNCHANGED history

MultiScript(w, clicked) ==
    LET ctx == ctx_of(w, "Valor Total", products, origens_config)
        multi_costs == multi_entries(w.filiais_multi, data, ctx)
    IN IF multi_costs # <<>>
       THEN \E df \in sort_values(multi_costs) :
              \E r \in {result_of(ctx, COMPARACAO_MULTIFILIAL, multi_costs, df)
                          @@ [widgets |-> w]} :
                 IF clicked
                 THEN \E h \in {load_history(history).value} :
                      \E t \in Now(h) :
                        /\ history' = save_history(
                             Append(h, comparison_record(r, t, products)))
                        /\ run' = [r EXCEPT !.salvo = TRUE]
                 ELSE run' = r /\ UNCHANGED history
       ELSE /\ run' = result_of(ctx, COMPARACAO_MULTIFILIAL, <<>>, <<>>)
                        @@ [widgets |-> w]
            /\ UNCHANGED history

(***************************************************************************)
(* Widget state.  The script runs again after every interaction, and one   *)
(* interaction changes one widget.  A widget that a run does not render    *)
(* loses its value and shows its default when it is rendered again; the    *)
(* two modes use different widget keys, the product selectbox is shared.   *)
(***************************************************************************)
FirstKey(items) == IF items = <<>> THEN <<>> ELSE items[1][1]

DEFAULT_OCUPACAO == Q(100)
DEFAULT_CAMBIO == Q(5)

DefaultWidgets(modo, filial, product_key) ==
    [filial |-> filial, filiais_multi |-> <<>>, modo_valor_fob |-> modo,
     valor_fob_usd |-> ZERO, valor_unit_fob_usd |-> ZERO, quantidade |-> ZERO,
     origem |-> FirstKey(origens_config),
     percentual_ocupacao_conteiner |-> DEFAULT_OCUPACAO,
     taxa_cambio |-> DEFAULT_CAMBIO, product_key |-> product_key]

\* st.multiselect: one more branch is selected, or one is removed.
SelectionSteps(old) ==
    {Append(old, f) : f \in {k \in Keys(data) : \A i \in 1..Len(old) : old[i] # k}}
      \cup {[i \in 1..(Len(old) - 1) |-> IF i < k THEN old[i] ELSE old[i + 1]] :
              k \in 1..Len(old)}

\* The widget values that follow old by one interaction.  U: the values that
\* can be entered; modos: the options of the FOB mode selectbox; literal: the
\* string the script compares the mode with, which decides the widgets shown.
NextWidgets(old, U, modos, literal, multi) ==
    LET total == old.modo_valor_fob = literal
        numbers ==
            IF total
            THEN {[old EXCEPT !.valor_fob_usd = v] : v \in U.fob}
            ELSE {[old EXCEPT !.valor_unit_fob_usd = v] : v \in U.unit}
                   \cup {[old EXCEPT !.quantidade = v] : v \in U.qty}
        modo == {IF (m = literal) = total
                 THEN [old EXCEPT !.modo_valor_fob = m]
                 ELSE [old EXCEPT !.modo_valor_fob = m, !.valor_fob_usd = ZERO,
                                  !.valor_unit_fob_usd = ZERO, !.quantidade = ZERO] :
                 m \in modos}
        branch == IF multi
                  THEN {[old EXCEPT !.filiais_multi = q] :
                          q \in SelectionSteps(old.filiais_multi) \ {<<>>}}
                  ELSE {[old EXCEPT !.filial = f] : f \in Keys(data)}
        others ==
            {[old EXCEPT !.origem = o] : o \in Keys(origens_config)}
              \cup {[old EXCEPT !.percentual_ocupacao_conteiner = v] : v \in U.pct}
              \cup {[old EXCEPT !.taxa_cambio = v] : v \in U.cambio}
              \cup {[old EXCEPT !.product_key = k] : k \in Keys(products)}
    IN (numbers \cup modo \cup branch \cup others) \ {old}

computed(r) == r.outcome \in {"ranking", "nenhuma_configuracao"}

\* A run of the script in single-branch mode, triggered by a widget change or
\* by selecting "Simulador único".
SimuladorUnico(U) ==
    /\ IF data = <<>>
       THEN /\ run' = NoRun("nenhuma_filial", SIMULADOR_UNICO)
                        @@ [widgets |-> DefaultWidgets("Valor total", <<>>,
                                                       run.widgets.product_key)]
            /\ UNCHANGED history
       ELSE IF run.sim_mode = SIMULADOR_UNICO /\ computed(run)
            THEN \E w \in NextWidgets(run.widgets, U, MODO_UNICO, "Valor Total", FALSE) :
                   SingleScript(w, FALSE)
            ELSE SingleScript(DefaultWidgets("Valor total", FirstKey(data),
                                             run.widgets.product_key), FALSE)
    /\ UNCHANGED <<data, products, origens_config, call>>

\* A run of the script in multi-branch mode, triggered by a widget change or
\* by selecting "Comparação multifilial".
ComparacaoMultifilial(U) ==
    /\ IF data = <<>>
       THEN /\ run' = NoRun("nenhuma_filial", COMPARACAO_MULTIFILIAL)
                        @@ [widgets |-> DefaultWidgets("Valor Total", <<>>,
                                                       run.widgets.product_key)]
            /\ UNCHANGED history
       ELSE \/ /\ \/ run.sim_mode # COMPARACAO_MULTIFILIAL
                  \/ Len(run.widgets.filiais_multi) <= 1
               /\ run' = NoRun("selecione_filial", COMPARACAO_MULTIFILIAL)
                           @@ [widgets |-> DefaultWidgets("Valor Total", <<>>,
                                                          run.widgets.product_key)]
               /\ UNCHANGED history
            \/ /\ run.sim_mode = COMPARACAO_MULTIFILIAL
               /\ \E w \in IF computed(run)
                           THEN NextWidgets(run.widgets, U, MODO_MULTI, "Valor Total", TRUE)
                           ELSE {[run.widgets EXCEPT !.filiais_multi = <<f>>] :
                                   f \in Keys(data)} :
                    MultiScript(w, FALSE)
    /\ UNCHANGED <<data, products, origens_config, call>>

\* The user clicks "Salvar Simulação no Histórico": the script runs again with
\* the same widget values and the button reads true.
SalvarSimulacao ==
    /\ run.save_button /\ run.sim_mode = SIMULADOR_UNICO
    /\ Len(load_history(history).value) < MaxHistory
    /\ SingleScript(run.widgets, TRUE)
    /\ UNCHANGED <<data, products, origens_config, call>>

\* The user clicks "Salvar comparação no histórico".
SalvarComparacao ==
    /\ run.save_button /\ run.sim_mode = COMPARACAO_MULTIFILIAL
    /\ Len(load_history(history).value) < MaxHistory
    /\ MultiScript(run.widgets, TRUE)
    /\ UNCHANGED <<data, products, origens_config, call>>

(***************************************************************************)
(* The contents of the stores and the inputs the model is run on.          *)
(***************************************************************************)
SP == <<"S", "P">>
RJ == <<"R", "J">>
DI == <<"D", "I">>
DDC == <<"D", "D", "C">>
Teste == <<"T", "e", "s", "t", "e">>
TESTE == <<"T", "E", "S", "T", "E">>
teste2 == <<"t", "e", "s", "t", "e", "2">>
China == <<"C", "h", "i", "n", "a">>

fixed(value, occ) ==
    Dict([type |-> "fixed", value |-> value, rate_by_occupancy |-> occ])
percentage(rate, base, occ) ==
    Dict([type |-> "percentage", rate |-> rate, base |-> base,
          rate_by_occupancy |-> occ])

TENTH == Rat(1, 10)

\* cost_config.json: branch -> scenario -> field -> entry.
StoreEmpty == <<>>

StoreNoScenario ==
    << <<SP, <<>> >>,
       <<RJ, << <<DI, << <<"Frete rodoviário", fixed(Q(100), FALSE)>> >> >> >> >> >>

StoreOnlyTeste ==
    << <<SP, << <<teste_lc, << <<"Frete rodoviário", fixed(Q(100), FALSE)>> >> >>,
                <<Teste, << <<"ICMS", percentage(TENTH, VALOR_CIF, FALSE)>> >> >> >> >>,
       <<RJ, << <<TESTE, << <<"Frete rodoviário", Num(Q(50))>> >> >> >> >> >>

\* Scenarios as "Adicionar Cenário" creates them, and fields set to zero.
StoreUnconfigured ==
    << <<SP, << <<DI, << <<"Frete rodoviário", Num(ZERO)>>, <<"ICMS", Num(ZERO)>> >> >>,
                <<DDC, << <<"Frete rodoviário", fixed(ZERO, FALSE)>>,
                          <<"ICMS", percentage(ZERO, VALOR_CIF, FALSE)>> >> >> >> >> >>

StoreMixed ==
    << <<SP, << <<DI, << <<"Frete rodoviário", fixed(Q(100), TRUE)>>,
                         <<"ICMS", percentage(TENTH, VALOR_CIF, FALSE)>> >> >>,
                <<DDC, << <<"Frete rodoviário", Num(Q(50))>>,
                          <<"IPI", percentage(TENTH, VALOR_FOB, FALSE)>> >> >>,
                <<teste2, << <<"Taxa MAPA", fixed(Q(100), FALSE)>> >> >> >> >>,
       <<RJ, << <<DI, << <<"Taxa DDC", percentage(TENTH, FRETE_INTERNACIONAL, TRUE)>>,
                         <<"ICMS", Num(ZERO)>> >> >>,
                <<Teste, << <<"Frete rodoviário", fixed(Q(1), FALSE)>> >> >>,
                <<DDC, << <<"Taxa MAPA",
                            percentage(TENTH, FRETE_INTERNACIONAL, FALSE)>> >> >> >> >> >>

\* Equal final costs, and a scenario whose only field is prorated.
StoreTies ==
    << <<SP, << <<DI, << <<"Frete rodoviário", fixed(Q(100), FALSE)>> >> >>,
                <<DDC, << <<"Frete rodoviário", Num(Q(100))>> >> >> >> >>,
       <<RJ, << <<DDC, << <<"ICMS", fixed(Q(100), TRUE)>> >> >>,
                <<TESTE, << <<"ICMS", fixed(Q(100), TRUE)>> >> >> >> >> >>

Stores ==
    {StoreEmpty, StoreNoScenario, StoreOnlyTeste, StoreUnconfigured, StoreMixed,
     StoreTies}

\* products.json: NCM -> product.
NCM1 == <<"1">>
NCM2 == <<"2">>

ProductFull ==
    [descricao |-> "A",
     imposto_importacao |-> [rate |-> TENTH, base |-> VALOR_CIF],
     ipi |-> [rate |-> Rat(1, 20), base |-> VALOR_FOB],
     pis |-> [rate |-> Rat(1, 50), base |-> FRETE_INTERNACIONAL],
     cofins |-> [rate |-> TENTH, base |-> VALOR_CIF]]

\* A product that lacks rules (an older or hand-edited store).
ProductPartial ==
    [descricao |-> "B",
     imposto_importacao |-> [rate |-> TENTH, base |-> VALOR_CIF],
     pis |-> None]

ProductStores == {<<>>, << <<NCM1, ProductFull>>, <<NCM2, ProductPartial>> >>}

\* origens_config.json: origin -> freight and fees.
OrigensStores ==
    {<<>>, << <<China, [frete_internacional_usd |-> Q(200),
                        taxas_frete_brl |-> Q(300)]>> >>}

\* The values entered in the number inputs.
Inputs ==
    [fob |-> {ZERO, Q(1000)}, unit |-> {ZERO, Q(500)}, qty |-> {ZERO, Q(2)},
     pct |-> {ZERO, Q(50), Q(100)}, cambio |-> {Q(2), Q(5)}]

NoCall == [fn |-> "none"]

Init ==
    /\ data \in Stores
    /\ products \in ProductStores
    /\ origens_config \in OrigensStores
    /\ history = Missing
    /\ run = NoRun("none", SIMULADOR_UNICO)
               @@ [widgets |-> DefaultWidgets("Valor total", FirstKey(data),
                                              FirstKey(products))]
    /\ call = NoCall

Next ==
    \/ SimuladorUnico(Inputs)
    \/ ComparacaoMultifilial(Inputs)

Spec == Init /\ [][Next]_vars

(***************************************************************************)
(* The simulator with the history: the same actions on fewer input values, *)
(* and the two save buttons.                                               *)
(***************************************************************************)
HistInputs ==
    [fob |-> {ZERO, Q(1000)}, unit |-> {ZERO, Q(500)}, qty |-> {ZERO, Q(2)},
     pct |-> {Q(100)}, cambio |-> {Q(5)}]

HistStores ==
    {StoreEmpty, StoreNoScenario, StoreOnlyTeste, StoreUnconfigured}

HistProductStores == {<< <<NCM1, ProductFull>> >>}

\* simulation_history.json as an earlier session left it: one record, saved
\* from branch RJ of StoreNoScenario for 2 units at USD 500.
OldWidgets ==
    [filial |-> RJ, filiais_multi |-> <<>>,
     modo_valor_fob |-> "Unitário × Quantidade",
     valor_fob_usd |-> ZERO, valor_unit_fob_usd |-> Q(500), quantidade |-> Q(2),
     origem |-> <<>>, percentual_ocupacao_conteiner |-> DEFAULT_OCUPACAO,
     taxa_cambio |-> DEFAULT_CAMBIO, product_key |-> <<>>]

OldRecord ==
    LET ctx == ctx_of(OldWidgets, "Valor Total", <<>>, <<>>)
        costs == filial_entries(RJ, Lookup(StoreNoScenario, RJ), ctx, FALSE)
    IN simulation_record(result_of(ctx, SIMULADOR_UNICO, costs, costs), 1, <<>>)

HistoryFiles == {json_dump(<<OldRecord>>)}

InitHist ==
    /\ data \in HistStores
    /\ products \in HistProductStores
    /\ origens_config \in OrigensStores \ {<<>>}
    /\ history \in HistoryFiles
    /\ run = NoRun("none", SIMULADOR_UNICO)
               @@ [widgets |-> DefaultWidgets("Valor total", FirstKey(data),
                                              FirstKey(products))]
    /\ call = NoCall

NextHist ==
    \/ SimuladorUnico(HistInputs)
    \/ ComparacaoMultifilial(HistInputs)
    \/ SalvarSimulacao
    \/ SalvarComparacao

SpecHist == InitHist /\ [][NextHist]_vars

(***************************************************************************)
(* The product taxes of the PRD script and the total cost of the early     *)
(* revisions (v2, v3, QAS).  Their dicts are only looked up: functions on  *)
(* the key strings.                                                        *)
(***************************************************************************)
\* Every tax is charged on the CIF value alone.
calcular_impostos_produto_sem_cadeia(produto_info, valor_cif) ==
    LET valor_ii == RMul(valor_cif, RDiv(Get(produto_info, "ii", ZERO), HUNDRED))
        valor_ipi == RMul(valor_cif, RDiv(Get(produto_info, "ipi", ZERO), HUNDRED))
        valor_pis == RMul(valor_cif, RDiv(Get(produto_info, "pis", ZERO), HUNDRED))
        valor_cofins ==
            RMul(valor_cif, RDiv(Get(produto_info, "cofins", ZERO), HUNDRED))
    IN [II |-> valor_ii, IPI |-> valor_ipi, PIS |-> valor_pis,
        COFINS |-> valor_cofins,
        Total_Impostos |->
            RAdd(RAdd(RAdd(valor_ii, valor_ipi), valor_pis), valor_cofins)]

calcular_impostos_produto(produto_info, valor_cif) ==
    LET ii_aliq == RDiv(Get(produto_info, "ii", ZERO), HUNDRED)
        ipi_aliq == RDiv(Get(produto_info, "ipi", ZERO), HUNDRED)
        pis_aliq == RDiv(Get(produto_info, "pis", ZERO), HUNDRED)
        cofins_aliq == RDiv(Get(produto_info, "cofins", ZERO), HUNDRED)
        valor_ii == RMul(valor_cif, ii_aliq)
        base_ipi == RAdd(valor_cif, valor_ii)
        valor_ipi == RMul(base_ipi, ipi_aliq)
        base_pis_cofins == RAdd(RAdd(valor_cif, valor_ii), valor_ipi)
        valor_pis == RMul(base_pis_cofins, pis_aliq)
        valor_cofins == RMul(base_pis_cofins, cofins_aliq)
    IN [II |-> valor_ii, IPI |-> valor_ipi, PIS |-> valor_pis,
        COFINS |-> valor_cofins,
        Total_Impostos |->
            RAdd(RAdd(RAdd(valor_ii, valor_ipi), valor_pis), valor_cofins)]

\* sub in s, for Python strings.
Contains(sub, s) ==
    \E i \in 1..(Len(s) - Len(sub) + 1) : SubSeq(s, i, i + Len(sub) - 1) = sub

ICMS_RATE == Rat(18, 100)

\* The sum of the eight looked-up amounts and the ICMS.
total_cost_of(scenario_data, custo_icms) ==
    RAdd(RAdd(RAdd(RAdd(RAdd(RAdd(RAdd(RAdd(
      Get(scenario_data, "Valor CIF", ZERO),
      Get(scenario_data, "Frete rodoviário", ZERO)),
      Get(scenario_data, "Armazenagem", ZERO)),
      Get(scenario_data, "Taxa MAPA", ZERO)),
      Get(scenario_data, "Taxas Porto Seco", ZERO)),
      Get(scenario_data, "Desova EAD", ZERO)),
      Get(scenario_data, "Taxa cross docking", ZERO)),
      Get(scenario_data, "Taxa DDC", ZERO)),
      custo_icms)

\* The scenario name is compared without regard to case.
calculate_total_cost_sem_caixa(scenario_data, scenario) ==
    LET icms_rate == IF Contains(lower(<<"D", "I">>), lower(scenario))
                        \/ Contains(lower(<<"D", "D", "C">>), lower(scenario))
                     THEN ICMS_RATE ELSE ZERO
        custo_icms == RMul(Get(scenario_data, "Valor CIF", ZERO), icms_rate)
    IN <<total_cost_of(scenario_data, custo_icms), custo_icms>>

\* calculate_total_cost(scenario_data, scenario) returns (total_cost, custo_icms).
calculate_total_cost(scenario_data, scenario) ==
    LET icms_rate == IF Contains(<<"D", "I">>, scenario)
                        \/ Contains(<<"D", "D", "C">>, scenario)
                     THEN ICMS_RATE ELSE ZERO
        custo_icms == RMul(Get(scenario_data, "Valor CIF", ZERO), icms_rate)
    IN <<total_cost_of(scenario_data, custo_icms), custo_icms>>

\* valor_cif = (valor_fob_usd + frete_internacional_usd) * taxa_cambio + taxas_frete_brl
valor_cif_v2(valor_fob_usd, frete_internacional_usd, taxa_cambio, taxas_frete_brl) ==
    RAdd(RMul(RAdd(valor_fob_usd, frete_internacional_usd), taxa_cambio),
         taxas_frete_brl)

\* scenario_data = fields.copy(); scenario_data['Valor CIF'] = valor_cif
scenario_data_of(fields, valor_cif) == DictSet(fields, "Valor CIF", valor_cif)

(***************************************************************************)
(* The two calculation functions on their own: every call is drawn from    *)
(* the configurations and trade values below, and returns.                 *)
(***************************************************************************)
MaxFields == 2

FieldNames == <<"Frete rodoviário", "ICMS", "IPI", "Taxa MAPA">>

ConfSet ==
    {fixed(Q(100), FALSE), fixed(Q(100), TRUE),
     percentage(TENTH, VALOR_CIF, FALSE), percentage(TENTH, VALOR_CIF, TRUE),
     percentage(TENTH, VALOR_FOB, FALSE), percentage(TENTH, VALOR_FOB, TRUE),
     percentage(TENTH, FRETE_INTERNACIONAL, FALSE),
     percentage(TENTH, FRETE_INTERNACIONAL, TRUE),
     Num(Q(50)),
     Dict([type |-> "outro", value |-> Q(10), rate_by_occupancy |-> FALSE]),
     percentage(TENTH, <<"X">>, FALSE),
     percentage(TENTH, valor_fob_lc, TRUE)}

Configs ==
    UNION {{[i \in 1..n |-> <<FieldNames[i], c[i]>>] : c \in [1..n -> ConfSet]} :
             n \in 0..MaxFields}

ProductSet ==
    {ProductFull, ProductPartial,
     [descricao |-> "C",
      imposto_importacao |-> [rate |-> TENTH, base |-> VALOR_FOB],
      ipi |-> [rate |-> TENTH, base |-> FRETE_INTERNACIONAL],
      pis |-> [rate |-> TENTH, base |-> <<"X">>],
      cofins |-> [base |-> VALOR_CIF]],
     [descricao |-> "D"]}

\* base_values, taxa_cambio and occupancy_fraction as the simulator computes
\* them from the trade values.
CalcArgs ==
    {LET occ == occupancy_fraction_of(pct)
         frete_rateado == RMul(frete, occ)
     IN [base_values |-> base_values_of(valor_cif_of(fob, frete_rateado, cambio),
                                        fob, frete_rateado),
         taxa_cambio |-> cambio, occupancy_fraction |-> occ] :
       fob \in {ZERO, Q(1000)}, frete \in {ZERO, Q(200)},
       pct \in {ZERO, Q(50), Q(100)}, cambio \in {Q(2), Q(5)}}

\* What a store file may hold when its JSON value is v: nothing, white
\* space, text that is not JSON, a document followed by more text, or the
\* document, alone or between white space.
TextsOf(v) ==
    {<<>>, <<WS>>, <<WS, WS>>, <<JUNK>>, <<WS, JUNK, WS>>, <<DOC(v), JUNK>>,
     <<DOC(v)>>, <<WS, DOC(v), WS>>}

FilesOf(values) == {Missing} \cup {File(text) : text \in UNION {TextsOf(v) : v \in values}}

\* data["Produtos"][ncm] of the PRD script: rates in per cent, any missing.
ProdutoInfos ==
    {[descricao |-> "A", ii |-> Q(10), ipi |-> Q(15), pis |-> Rat(21, 10),
      cofins |-> Rat(965, 100)],
     [descricao |-> "B", ii |-> Q(10)],
     [descricao |-> "C", ipi |-> Q(15), cofins |-> Q(10)],
     [descricao |-> "D", ii |-> ZERO, ipi |-> Q(15), pis |-> Q(2)],
     [descricao |-> "E"]}

CifValues == {ZERO, Q(1000), Q(6000)}

\* The cost fields of a scenario in an early revision.
EarlyFields ==
    {[x \in {} |-> ZERO],
     [x \in {"Frete rodoviário", "Taxa DDC"} |->
        IF x = "Taxa DDC" THEN Q(50) ELSE Q(100)],
     [x \in {"Frete rodoviário", "Armazenagem", "Taxa MAPA", "Taxas Porto Seco",
             "Desova EAD", "Taxa cross docking", "Taxa DDC"} |-> Q(10)],
     [x \in {"Armazenagem", "ICMS", "Valor CIF", "Seguro"} |->
        IF x = "Armazenagem" THEN Q(70) ELSE Q(999)]}

EarlyScenarios ==
    {DI, DDC, <<"d", "i">>, <<"D", "A", "P">>, <<"X", "D", "I", "2">>,
     <<"D", "D">>, <<"d", "d", "c">>, <<>>}

EarlyTrades ==
    [valor_fob_usd : {ZERO, Q(1000)}, frete_internacional_usd : {ZERO, Q(200)},
     taxa_cambio : {Q(5)}, taxas_frete_brl : {ZERO, Q(300)}]

InitCalc ==
    /\ data = <<>> /\ products = <<>> /\ origens_config = <<>> /\ history = Missing
    /\ run = NoRun("none", SIMULADOR_UNICO)
               @@ [widgets |-> DefaultWidgets("Valor total", <<>>, <<>>)]
    /\ \/ \E config \in Configs, a \in CalcArgs :
            call = [fn |-> "calculate_total_cost_extended", returned |-> FALSE,
                    config |-> config, product |-> None, args |-> a,
                    cost_values |-> <<>>, result |-> ZERO, before |-> NoCall]
       \/ \E product \in ProductSet, a \in CalcArgs :
            call = [fn |-> "calculate_product_taxes", returned |-> FALSE,
                    config |-> <<>>, product |-> product, args |-> a,
                    cost_values |-> <<>>, result |-> None]
       \/ \E file \in FilesOf(Stores) :
            call = [fn |-> "load_data", returned |-> FALSE, file |-> file,
                    outcome |-> Returned(<<>>)]
       \/ \E file \in FilesOf({<<>>, <<OldRecord>>}) :
            call = [fn |-> "load_history", returned |-> FALSE, file |-> file,
                    outcome |-> Returned(<<>>)]
       \/ \E file \in FilesOf(ProductStores) :
            call = [fn |-> "load_products", returned |-> FALSE, file |-> file,
                    outcome |-> Returned(<<>>)]
       \/ \E produto_info \in ProdutoInfos, valor_cif \in CifValues :
            call = [fn |-> "calcular_impostos_produto", returned |-> FALSE,
                    produto_info |-> produto_info, valor_cif |-> valor_cif,
                    result |-> None]
       \/ \E fields \in EarlyFields, scenario \in EarlyScenarios,
             trade \in EarlyTrades :
            call = [fn |-> "calculate_total_cost", returned |-> FALSE,
                    fields |-> fields, scenario |-> scenario, trade |-> trade,
                    valor_cif |-> ZERO, result |-> <<ZERO, ZERO>>]

Return_calculate_total_cost_extended ==
    /\ call.fn = "calculate_total_cost_extended" /\ ~call.returned
    /\ call' = [call EXCEPT
                  !.returned = TRUE,
                  !.cost_values = cost_values(call.config, call.args.base_values,
                                              call.args.taxa_cambio,
                                              call.args.occupancy_fraction),
                  !.result = calculate_total_cost_extended(
                                 call.config, call.args.base_values,
                                 call.args.taxa_cambio, call.args.occupancy_fraction)]
    /\ UNCHANGED <<data, products, origens_config, history, run>>

Return_calculate_product_taxes ==
    /\ call.fn = "calculate_product_taxes" /\ ~call.returned
    /\ call' = [call EXCEPT
                  !.returned = TRUE,
                  !.result = calculate_product_taxes(
                                 call.product, call.args.base_values,
                                 call.args.taxa_cambio, call.args.occupancy_fraction)]
    /\ UNCHANGED <<data, products, origens_config, history, run>>

\* The function is called again with the amount of one fixed field doubled
\* and everything else as in the call that has returned.
Call_with_doubled_field ==
    /\ call.fn = "calculate_total_cost_extended" /\ call.returned
    /\ call.before = NoCall
    /\ \E i \in 1..Len(call.config) :
         LET conf == call.config[i][2]
         IN /\ isinstance_dict(conf) /\ Get(conf.d, "type", "fixed") = "fixed"
            /\ call' = [call EXCEPT
                 !.returned = FALSE, !.cost_values = <<>>, !.result = ZERO,
                 !.config[i][2] =
                     Dict([conf.d EXCEPT !.value = RMul(Q(2), conf.d.value)]),
                 !.before = [fn |-> call.fn, change |-> "doubled", field |-> i,
                             config |-> call.config, args |-> call.args,
                             cost_values |-> call.cost_values,
                             result |-> call.result]]
    /\ UNCHANGED <<data, products, origens_config, history, run>>

\* The function is called again for another container occupancy, with the
\* same FOB value and exchange rate.
Call_with_occupancy ==
    /\ call.fn = "calculate_total_cost_extended" /\ call.returned
    /\ call.before = NoCall
    /\ \E a \in CalcArgs :
         /\ a.occupancy_fraction # call.args.occupancy_fraction
         /\ a.taxa_cambio = call.args.taxa_cambio
         /\ a.base_values[VALOR_FOB] = call.args.base_values[VALOR_FOB]
         /\ call' = [call EXCEPT
              !.returned = FALSE, !.cost_values = <<>>, !.result = ZERO,
              !.args = a,
              !.before = [fn |-> call.fn, change |-> "occupancy", field |-> 0,
                          config |-> call.config, args |-> call.args,
                          cost_values |-> call.cost_values,
                          result |-> call.result]]
    /\ UNCHANGED <<data, products, origens_config, history, run>>

Return_load_data ==
    /\ call.fn = "load_data" /\ ~call.returned
    /\ call' = [call EXCEPT !.returned = TRUE, !.outcome = load_data(call.file)]
    /\ UNCHANGED <<data, products, origens_config, history, run>>

Return_load_history ==
    /\ call.fn = "load_history" /\ ~call.returned
    /\ call' = [call EXCEPT !.returned = TRUE, !.outcome = load_history(call.file)]
    /\ UNCHANGED <<data, products, origens_config, history, run>>

Return_load_products ==
    /\ call.fn = "load_products" /\ ~call.returned
    /\ call' = [call EXCEPT !.returned = TRUE, !.outcome = load_products(call.file)]
    /\ UNCHANGED <<data, products, origens_config, history, run>>

Return_calcular_impostos_produto ==
    /\ call.fn = "calcular_impostos_produto" /\ ~call.returned
    /\ call' = [call EXCEPT
                  !.returned = TRUE,
                  !.result = calcular_impostos_produto(call.produto_info,
                                                       call.valor_cif)]
    /\ UNCHANGED <<data, products, origens_config, history, run>>

\* The body of the ranking loop of the early revisions for one scenario.
Return_calculate_total_cost ==
    /\ call.fn = "calculate_total_cost" /\ ~call.returned
    /\ \E valor_cif \in {valor_cif_v2(call.trade.valor_fob_usd,
                                      call.trade.frete_internacional_usd,
                                      call.trade.taxa_cambio,
                                      call.trade.taxas_frete_brl)} :
         call' = [call EXCEPT
                    !.returned = TRUE, !.valor_cif = valor_cif,
                    !.result = calculate_total_cost(
                                   scenario_data_of(call.fields, valor_cif),
                                   call.scenario)]
    /\ UNCHANGED <<data, products, origens_config, history, run>>

NextCalc ==
    \/ Return_calculate_total_cost_extended
    \/ Return_calculate_product_taxes
    \/ Call_with_doubled_field
    \/ Call_with_occupancy
    \/ Return_load_data
    \/ Return_load_history
    \/ Return_load_products
    \/ Return_calcular_impostos_produto
    \/ Return_calculate_total_cost

SpecCalc == InitCalc /\ [][NextCalc]_vars

(***************************************************************************)
(* The module "Histórico de Simulações": the page that lists the persisted *)
(* records, with the per-record delete button (DEV) and the clear button   *)
(* (PRD).  Every interaction reruns the script; a button reads True only   *)
(* in the run its click triggered, and the state of a widget that a run    *)
(* does not render is dropped.                                             *)
(***************************************************************************)
MaxRecords == 3

\* A record as "Salvar Simulação no Histórico" writes it.
RecordOf(quantidade, timestamp) ==
    LET ctx == ctx_of([OldWidgets EXCEPT !.quantidade = quantidade],
                      "Valor Total", <<>>, <<>>)
        costs == filial_entries(RJ, Lookup(StoreNoScenario, RJ), ctx, FALSE)
    IN simulation_record(result_of(ctx, SIMULADOR_UNICO, costs, costs),
                         timestamp, <<>>)

HistoricoRecords == {RecordOf(q, t) : q \in {Q(2), Q(3)}, t \in 1..3}

RECURSIVE SeqsUpTo(_, _)
SeqsUpTo(S, n) ==
    IF n = 0 THEN {<<>>}
    ELSE LET shorter == SeqsUpTo(S, n - 1)
         IN shorter \cup {Append(h, e) : h \in shorter, e \in S}

HistoricoFiles ==
    {Missing} \cup {json_dump(h) : h \in SeqsUpTo(HistoricoRecords, MaxRecords)}

\* sorted(history, key=<timestamp>, reverse=True): the sort is stable, records
\* with the same timestamp keep the order they have in the file.
RECURSIVE sorted_reverse(_)
sorted_reverse(h) ==
    IF h = <<>> THEN <<>>
    ELSE LET rest == sorted_reverse(Tail(h))
             later == Cardinality({i \in 1..Len(rest) :
                                     rest[i].timestamp > Head(h).timestamp})
         IN SubSeq(rest, 1, later) \o <<Head(h)>>
              \o SubSeq(rest, later + 1, Len(rest))

\* Every record with the timestamp of x is removed.
list_remove_todos(lst, x) == SelectSeq(lst, LAMBDA e : e.timestamp # x.timestamp)

\* list.remove(x): the first element equal to x is removed.
list_remove(lst, x) ==
    LET i == CHOOSE i \in 1..Len(lst) :
               lst[i] = x /\ \A j \in 1..(i - 1) : lst[j] # x
    IN SubSeq(lst, 1, i - 1) \o SubSeq(lst, i + 1, Len(lst))

\* A page of the module before anything is rendered.
HistoricoPage(script, interaction, clicked) ==
    [outcome |-> "none", script |-> script, interaction |-> interaction,
     clicked |-> clicked, sorted_history |-> <<>>, expanders |-> <<>>,
     buttons |-> <<>>, excluido |-> <<>>, erro |-> "", file |-> Missing,
     limpar_button |-> FALSE, checkbox_rendered |-> FALSE,
     checkbox_value |-> FALSE, success |-> ""]

\* "for record in sorted_history:" from index i on (the list iterator keeps an
\* index into the list, which the loop body shortens): the expander, then the
\* button with key delete_<timestamp>.  A key used twice in one run raises
\* DuplicateWidgetID, which ends the run.
RECURSIVE historico_loop(_, _)
historico_loop(p, i) ==
    IF i > Len(p.sorted_history) THEN p
    ELSE LET record == p.sorted_history[i]
             key == record.timestamp
             shown == [p EXCEPT !.expanders = Append(@, record)]
         IN IF \E b \in 1..Len(p.buttons) : p.buttons[b] = key
            THEN [shown EXCEPT !.erro = "DuplicateWidgetID"]
            ELSE IF key = p.clicked
            THEN LET remaining == list_remove(p.sorted_history, record)
                 IN historico_loop(
                      [shown EXCEPT !.buttons = Append(@, key),
                                    !.sorted_history = remaining,
                                    !.file = save_history(remaining),
                                    !.excluido = Append(@, record),
                                    !.success = "Registro excluído com sucesso!"],
                      i + 1)
            ELSE historico_loop([shown EXCEPT !.buttons = Append(@, key)], i + 1)

\* One run of the module in the DEV script; clicked is the key of the delete
\* button whose click triggered the run, 0 when no button did.
HistoricoDEV(interaction, clicked) ==
    LET loaded == load_history(history).value
        page == HistoricoPage("DEV", interaction, clicked)
    IN IF loaded # <<>>
       THEN LET p == historico_loop(
                       [page EXCEPT !.sorted_history = sorted_reverse(loaded),
                                    !.file = history], 1)
            IN /\ history' = p.file
               /\ run' = [p EXCEPT !.outcome = IF p.erro = "" THEN "registros"
                                               ELSE "erro"]
       ELSE /\ run' = [page EXCEPT !.outcome = "nenhuma_simulacao"]
            /\ UNCHANGED history

\* PRD: load_history has no try/except.
load_history_PRD(file) ==
    IF file.exists THEN json_loads(file.text) ELSE Returned(<<>>)

\* One run of the module in the PRD script.  limpar: the run was triggered by
\* a click on "Limpar Histórico"; checkbox: the value the confirmation
\* checkbox holds in the widget state.  The records are displayed in
\* descending order of timestamp; the display is not part of the state.
HistoricoPRD(interaction, limpar, checkbox) ==
    LET loaded == load_history_PRD(history)
        page == HistoricoPage("PRD", interaction, 0)
    IN IF loaded.raised # ""
       THEN /\ run' = [page EXCEPT !.outcome = "erro", !.erro = loaded.raised]
            /\ UNCHANGED history
       ELSE IF loaded.value # <<>>
       THEN IF limpar
            THEN IF checkbox
                 THEN \* save_history([]); st.experimental_rerun()
                      /\ history' = save_history(<<>>)
                      /\ run' = [page EXCEPT !.outcome = "nenhuma_simulacao",
                                   !.success = "Histórico limpo com sucesso!"]
                 ELSE /\ run' = [page EXCEPT !.outcome = "registros",
                                   !.limpar_button = TRUE,
                                   !.checkbox_rendered = TRUE,
                                   !.checkbox_value = FALSE]
                      /\ UNCHANGED history
            ELSE /\ run' = [page EXCEPT !.outcome = "registros",
                                        !.limpar_button = TRUE]
                 /\ UNCHANGED history
       ELSE /\ run' = [page EXCEPT !.outcome = "nenhuma_simulacao"]
            /\ UNCHANGED history

\* The module is opened (or the page is reloaded) in the DEV script.
Historico ==
    /\ HistoricoDEV("abrir", 0)
    /\ UNCHANGED <<data, products, origens_config, call>>

\* A click on an "Excluir este registro" button that the page shows.
ExcluirEsteRegistro ==
    /\ run.script = "DEV"
    /\ \E b \in 1..Len(run.buttons) : HistoricoDEV("excluir", run.buttons[b])
    /\ UNCHANGED <<data, products, origens_config, call>>

\* The module is opened (or the page is reloaded) in the PRD script.
HistoricoProducao ==
    /\ HistoricoPRD("abrir", FALSE, FALSE)
    /\ UNCHANGED <<data, products, origens_config, call>>

\* A click on "Limpar Histórico".
LimparHistorico ==
    /\ run.script = "PRD" /\ run.limpar_button
    /\ HistoricoPRD("limpar", TRUE, run.checkbox_rendered /\ run.checkbox_value)
    /\ UNCHANGED <<data, products, origens_config, call>>

\* The checkbox "Confirme a limpeza do histórico" is ticked or unticked.
ConfirmeALimpeza ==
    /\ run.script = "PRD" /\ run.checkbox_rendered
    /\ HistoricoPRD("confirmar", FALSE, ~run.checkbox_value)
    /\ UNCHANGED <<data, products, origens_config, call>>

InitHistorico ==
    /\ data = StoreNoScenario /\ products = <<>> /\ origens_config = <<>>
    /\ history \in HistoricoFiles
    /\ run = HistoricoPage("", "none", 0)
    /\ call = NoCall

NextHistorico ==
    \/ Historico
    \/ ExcluirEsteRegistro
    \/ HistoricoProducao
    \/ LimparHistorico
    \/ ConfirmeALimpeza

SpecHistorico == InitHistorico /\ [][NextHistorico]_vars

(***************************************************************************)
(* Gerenciamento: the buttons that add a branch, a scenario or an origin.  *)
(* Each operator takes the loaded store and the text typed in the widget   *)
(* and gives the store the run ends with and whether it was saved.         *)
(***************************************************************************)
Managed(store, saved, message) ==
    [store |-> store, saved |-> saved, message |-> message]

\* d[k] = v on an ordered dict: the value of an existing key is replaced in
\* place, a new key goes to the end.
SetItem(items, k, v) ==
    IF k \in Keys(items)
    THEN [i \in 1..Len(items) |-> IF items[i][1] = k THEN <<k, v>> ELSE items[i]]
    ELSE Append(items, <<k, v>>)

\* The branch is added even when it exists already (its scenarios are lost).
adicionar_filial_sem_teste(d, new_filial) ==
    LET new_filial_stripped == strip(new_filial)
    IN IF new_filial_stripped # <<>>
       THEN Managed(SetItem(d, new_filial_stripped, <<>>), TRUE,
                    "Filial adicionada com sucesso!")
       ELSE Managed(d, FALSE, "Digite um nome válido para a filial.")

\* if st.button("Adicionar Filial"):
adicionar_filial(d, new_filial) ==
    LET new_filial_stripped == strip(new_filial)
    IN IF new_filial_stripped # <<>>
       THEN IF new_filial_stripped \in Keys(d)
            THEN Managed(d, FALSE, "Filial já existe!")
            ELSE Managed(SetItem(d, new_filial_stripped, <<>>), TRUE,
                         "Filial adicionada com sucesso!")
       ELSE Managed(d, FALSE, "Digite um nome válido para a filial.")

save_data(d) == json_dump(d)

(***************************************************************************)
(* Two browser sessions on the same files.  Every session runs the script  *)
(* in a thread of its own; a run that saves reads the store first, changes *)
(* its copy and writes the copy back, and the runs of the other session    *)
(* may come in between.  In this specification data holds the file         *)
(* cost_config.json.                                                       *)
(***************************************************************************)
Sessions == {1, 2}

MaxSessionSaves == 2

MG == <<"M", "G">>
BA == <<"B", "A">>

\* What the user of the session saves: a simulation of its own, a branch of
\* its own.
SessionRecord(s, timestamp) == RecordOf(Q(1 + s), timestamp)
SessionFilial(s) == IF s = 1 THEN MG ELSE BA

IdleSession ==
    [pc |-> "idle", history |-> <<>>, data |-> <<>>, saved |-> <<>>,
     added |-> <<>>]

\* The write-back reads the store again and appends to what it holds now.
session_history_relido(copy, file, record) ==
    Append(load_history(file).value, record)

\* history.append(simulation_record) on the copy loaded by this run.
session_history(copy, file, record) == Append(copy, record)

\* "Salvar Simulação no Histórico" is clicked: history = load_history().
CarregaHistorico(s) ==
    /\ run[s].pc = "idle" /\ Len(run[s].saved) < MaxSessionSaves
    /\ run' = [run EXCEPT ![s].pc = "history_loaded",
                          ![s].history = load_history(history).value]
    /\ UNCHANGED <<data, products, origens_config, history, call>>

\* ... history.append(simulation_record); save_history(history).
SalvaHistorico(s) ==
    /\ run[s].pc = "history_loaded"
    /\ \E t \in Now(run[s].history) :
         \E h \in {session_history(run[s].history, history, SessionRecord(s, t))} :
           /\ history' = save_history(h)
           /\ run' = [run EXCEPT ![s].pc = "idle", ![s].history = h,
                                 ![s].saved = Append(@, SessionRecord(s, t))]
    /\ UNCHANGED <<data, products, origens_config, call>>

\* A run with "Adicionar Filial" clicked starts: data = load_data().
CarregaConfiguracao(s) ==
    /\ run[s].pc = "idle" /\ run[s].added = <<>>
    /\ load_data(data).raised = ""
    /\ run' = [run EXCEPT ![s].pc = "data_loaded",
                          ![s].data = load_data(data).value]
    /\ UNCHANGED <<data, products, origens_config, history, call>>

\* ... data[new_filial_stripped] = {}; save_data(data).
AdicionaFilial(s) ==
    /\ run[s].pc = "data_loaded"
    /\ \E m \in {adicionar_filial(run[s].data, SessionFilial(s))} :
         /\ data' = IF m.saved THEN save_data(m.store) ELSE data
         /\ run' = [run EXCEPT ![s].pc = "idle", ![s].data = m.store,
                               ![s].added = IF m.saved
                                            THEN Append(@, SessionFilial(s))
                                            ELSE @]
    /\ UNCHANGED <<products, origens_config, history, call>>

InitSessions ==
    /\ data = json_dump(StoreNoScenario)
    /\ products = <<>> /\ origens_config = <<>>
    /\ history = json_dump(<<OldRecord>>)
    /\ run = [s \in Sessions |-> IdleSession]
    /\ call = NoCall

NextSessions ==
    \E s \in Sessions :
      \/ CarregaHistorico(s)
      \/ SalvaHistorico(s)
      \/ CarregaConfiguracao(s)
      \/ AdicionaFilial(s)

SpecSessions == InitSessions /\ [][NextSessions]_vars

(***************************************************************************)
(* MÓDULO: GERENCIAMENTO.  One run of the script with the module selected  *)
(* renders the tabs Filiais, Cenários, Campos de Custo and Origens in that *)
(* order on the dict "data" loaded at the top of the run; every save       *)
(* writes the whole dict.                                                  *)
(***************************************************************************)
MaxAdicoes == 1

DEFAULT_FIELD_NAMES ==
    <<"Frete rodoviário", "ICMS", "IPI", "Taxa MAPA", "Taxas Porto Seco",
      "Desova EAD", "Taxa cross docking", "Taxa DDC">>

\* The dict "Adicionar Cenário" stores for a new scenario: bare zeros.
novo_cenario ==
    [i \in 1..Len(DEFAULT_FIELD_NAMES) |-> <<DEFAULT_FIELD_NAMES[i], Num(ZERO)>>]

\* if st.button("Adicionar Cenário"):
adicionar_cenario(d, filial_select, new_scenario) ==
    LET new_scenario_stripped == strip(new_scenario)
    IN IF new_scenario_stripped # <<>>
       THEN IF new_scenario_stripped \in Keys(Lookup(d, filial_select))
            THEN Managed(d, FALSE, "Cenário já existe para essa filial!")
            ELSE Managed(SetItem(d, filial_select,
                                 SetItem(Lookup(d, filial_select),
                                         new_scenario_stripped, novo_cenario)),
                         TRUE, "Cenário adicionado com sucesso!")
       ELSE Managed(d, FALSE, "Digite um nome válido para o cenário.")

\* list(d.keys())
KeyList(items) == [i \in 1..Len(items) |-> items[i][1]]

\* st.selectbox(label, options, key=...): the value the widget holds when it
\* is one of the options, the first option otherwise.
selectbox(options, value) ==
    IF \E i \in 1..Len(options) : options[i] = value THEN value ELSE options[1]

\* novo_config of one field of the tab "Campos de Custo": what the widgets of
\* the field hold.  edited: the user has typed valor into "Valor Fixo".
novo_config_of(current, edited, valor) ==
    LET is_dict == isinstance_dict(current)
        current_type == IF is_dict THEN Get(current.d, "type", "fixed") ELSE "fixed"
        current_fixed == IF is_dict
                         THEN IF current_type = "fixed"
                              THEN Get(current.d, "value", ZERO) ELSE ZERO
                         ELSE current.v
        current_rate == IF is_dict /\ current_type = "percentage"
                        THEN Get(current.d, "rate", ZERO) ELSE ZERO
        current_base == IF is_dict /\ current_type = "percentage"
                        THEN Get(current.d, "base", VALOR_CIF) ELSE VALOR_CIF
        current_rate_occ == IF is_dict
                            THEN Get(current.d, "rate_by_occupancy", FALSE)
                            ELSE FALSE
        novo_tipo == IF current_type = "fixed" THEN "fixed" ELSE "percentage"
    IN IF novo_tipo = "fixed"
       THEN fixed(IF edited THEN valor ELSE current_fixed, current_rate_occ)
       ELSE percentage(RMul(RMul(current_rate, HUNDRED), Rat(1, 100)),
                       current_base, current_rate_occ)

\* for field in list(scenario_fields.keys()): ... if novo_config != current:
\* scenario_fields[field] = novo_config.  campo: the field whose "Valor Fixo"
\* was edited, "" when none was.
campos_de_custo(scenario_fields, campo, valor) ==
    [i \in 1..Len(scenario_fields) |->
        <<scenario_fields[i][1],
          novo_config_of(scenario_fields[i][2], scenario_fields[i][1] = campo,
                         valor)>>]

load_origens_config(file) ==
    IF file.exists
    THEN LET parsed == json_loads(file.text)
         IN IF parsed.raised = "JSONDecodeError" THEN Returned(<<>>) ELSE parsed
    ELSE Returned(<<>>)

save_origens_config(config) == json_dump(config)

\* if st.button("Adicionar Origem"): the two number inputs are created in the
\* run of the click and hold their default, 0.0.
adicionar_origem(config, nova_origem) ==
    IF strip(nova_origem) # <<>>
    THEN IF nova_origem \in Keys(config)
         THEN Managed(config, FALSE, "Origem já existe!")
         ELSE Managed(SetItem(config, strip(nova_origem),
                              [frete_internacional_usd |-> ZERO,
                               taxas_frete_brl |-> ZERO]),
                      TRUE, "Origem adicionada com sucesso!")
    ELSE Managed(config, FALSE, "Informe um nome válido para a origem.")

\* The widget state of the module: the interaction that triggered the run,
\* the text typed, the selections, and the field edited.
GerenciamentoWidgets(interaction, typed, w, campo, valor) ==
    [interaction |-> interaction, typed |-> typed,
     filial_select |-> w.filial_select, filial_for_field |-> w.filial_for_field,
     scenario_for_field |-> w.scenario_for_field, campo |-> campo, valor |-> valor]

NoSelection ==
    [filial_select |-> <<>>, filial_for_field |-> <<>>, scenario_for_field |-> <<>>]

\* A page of the simulator or of the management module.
ManagementPage(page, w, messages, ranked, adicoes) ==
    [page |-> page, adicoes |-> adicoes, interaction |-> w.interaction, typed |-> w.typed,
     filial_select |-> w.filial_select, filial_for_field |-> w.filial_for_field,
     scenario_for_field |-> w.scenario_for_field, campo |-> w.campo,
     valor |-> w.valor, messages |-> messages, ranked |-> ranked]

\* Aba 3: the dict after the fields of the selected scenario were rendered.
campos_tab(d, w) ==
    IF d = <<>> THEN [store |-> d, saved |-> FALSE, w |-> w]
    ELSE LET filial_for_field == selectbox(KeyList(d), w.filial_for_field)
             scenarios == Lookup(d, filial_for_field)
         IN IF scenarios = <<>>
            THEN [store |-> d, saved |-> FALSE,
                  w |-> [w EXCEPT !.filial_for_field = filial_for_field,
                                  !.scenario_for_field = <<>>]]
            ELSE LET scenario_for_field ==
                       selectbox(KeyList(scenarios), w.scenario_for_field)
                     scenario_fields == Lookup(scenarios, scenario_for_field)
                     updated == campos_de_custo(
                                  scenario_fields,
                                  IF w.interaction = "Valor Fixo" THEN w.campo
                                  ELSE "", w.valor)
                 IN [store |-> SetItem(d, filial_for_field,
                                       SetItem(scenarios, scenario_for_field,
                                               updated)),
                     saved |-> updated # scenario_fields,
                     w |-> [w EXCEPT !.filial_for_field = filial_for_field,
                                     !.scenario_for_field = scenario_for_field]]

\* if module_selected == "Gerenciamento": one run of the module.
GerenciamentoScript(w) ==
    \E d \in {load_data(data).value} :
    \E t1 \in {IF w.interaction = "Adicionar Filial"
               THEN adicionar_filial(d, w.typed) ELSE Managed(d, FALSE, "")} :
    \E filial_select \in {IF t1.store = <<>> THEN <<>>
                          ELSE selectbox(KeyList(t1.store), w.filial_select)} :
    \E t2 \in {IF w.interaction = "Adicionar Cenário" /\ t1.store # <<>>
               THEN adicionar_cenario(t1.store, filial_select, w.typed)
               ELSE Managed(t1.store, FALSE, "")} :
    \E t3 \in {campos_tab(t2.store, [w EXCEPT !.filial_select = filial_select])} :
    \E config \in {load_origens_config(origens_config).value} :
    \E t5 \in {IF w.interaction = "Adicionar Origem"
               THEN adicionar_origem(config, w.typed)
               ELSE Managed(config, FALSE, "")} :
        /\ data' = IF t1.saved \/ t2.saved \/ t3.saved THEN save_data(t3.store)
                   ELSE data
        /\ origens_config' = IF t5.saved THEN save_origens_config(t5.store)
                             ELSE origens_config
        /\ run' = ManagementPage("Gerenciamento", t3.w,
                                 <<t1.message, t2.message, t5.message>>, <<>>,
                                 run.adicoes
                                   + IF t1.saved \/ t2.saved \/ t5.saved
                                     THEN 1 ELSE 0)

FilialNames == {<<" ">>, RJ, <<" ">> \o RJ \o <<" ">>, <<" ">> \o MG}
CenarioNames == {<<>>, DI, <<" ">> \o DI, DDC \o <<" ">>}
OrigemNames == {<<" ">>, China, <<" ">> \o China \o <<" ">>, <<" ">> \o SP}
ValoresFixos == {ZERO, Q(100)}

\* The module is opened, or the page is reloaded.
Gerenciamento ==
    /\ GerenciamentoScript(
         GerenciamentoWidgets("abrir", <<>>,
                              IF run.page = "Gerenciamento" THEN run ELSE NoSelection,
                              "", ZERO))
    /\ UNCHANGED <<products, history, call>>

\* A click on "Adicionar Filial" with a name typed in "Nova Filial".
AdicionarFilial ==
    /\ run.page = "Gerenciamento" /\ run.adicoes < MaxAdicoes
    /\ \E new_filial \in FilialNames :
         GerenciamentoScript(
           GerenciamentoWidgets("Adicionar Filial", new_filial, run, "", ZERO))
    /\ UNCHANGED <<products, history, call>>

\* A click on "Adicionar Cenário" with a name typed in "Novo Cenário".
AdicionarCenario ==
    /\ run.page = "Gerenciamento" /\ run.adicoes < MaxAdicoes
    /\ load_data(data).value # <<>>
    /\ \E new_scenario \in CenarioNames :
         GerenciamentoScript(
           GerenciamentoWidgets("Adicionar Cenário", new_scenario, run, "", ZERO))
    /\ UNCHANGED <<products, history, call>>

\* A click on "Adicionar Origem" with a name typed in "Nova Origem".
AdicionarOrigem ==
    /\ run.page = "Gerenciamento" /\ run.adicoes < MaxAdicoes
    /\ \E nova_origem \in OrigemNames :
         GerenciamentoScript(
           GerenciamentoWidgets("Adicionar Origem", nova_origem, run, "", ZERO))
    /\ UNCHANGED <<products, history, call>>

\* Another branch is chosen in "Selecione a filial" of the tab Cenários.
SelecioneAFilial ==
    /\ run.page = "Gerenciamento"
    /\ \E f \in Keys(load_data(data).value) :
         GerenciamentoScript(
           GerenciamentoWidgets("Selecione a filial", <<>>,
                                [run EXCEPT !.filial_select = f], "", ZERO))
    /\ UNCHANGED <<products, history, call>>

\* Another branch or scenario is chosen in the tab Campos de Custo.
SelecioneOCenario ==
    /\ run.page = "Gerenciamento"
    /\ \E f \in Keys(load_data(data).value) :
       \E s \in IF Lookup(load_data(data).value, f) = <<>> THEN {<<>>}
                ELSE Keys(Lookup(load_data(data).value, f)) :
         GerenciamentoScript(
           GerenciamentoWidgets("Selecione o Cenário", <<>>,
                                [run EXCEPT !.filial_for_field = f,
                                            !.scenario_for_field = s], "", ZERO))
    /\ UNCHANGED <<products, history, call>>

\* A value is typed into "Valor Fixo" of a field of the selected scenario.
ValorFixo ==
    /\ run.page = "Gerenciamento" /\ run.scenario_for_field # <<>>
    /\ \E valor \in ValoresFixos :
         GerenciamentoScript(
           GerenciamentoWidgets("Valor Fixo", <<>>, run, "Frete rodoviário", valor))
    /\ UNCHANGED <<products, history, call>>

\* The single-branch simulator is run on a branch of the stored configuration.
SimuladorDaFilial ==
    /\ \E d \in {load_data(data).value} :
       \E f \in Keys(d) :
       \E origens \in {load_origens_config(origens_config).value} :
       \E ctx \in {ctx_of([OldWidgets EXCEPT
                             !.filial = f,
                             !.origem = IF origens = <<>> THEN <<>>
                                        ELSE KeyList(origens)[1]],
                          "Valor Total", <<>>, origens)} :
       \E costs \in {filial_entries(f, Lookup(d, f), ctx, FALSE)} :
         run' = ManagementPage(
                  "Simulador de Cenários",
                  GerenciamentoWidgets("Simular", <<>>,
                                       [NoSelection EXCEPT !.filial_select = f],
                                       "", ZERO),
                  <<>>, [i \in 1..Len(costs) |-> costs[i].scenario],
                  run.adicoes)
    /\ UNCHANGED <<data, products, origens_config, history, call>>

LegacyStore ==
    << <<SP, <<>> >>,
       <<RJ, << <<DI, << <<"Frete rodoviário", Num(Q(50))>>,
                         <<"ICMS", percentage(TENTH, VALOR_CIF, FALSE)>> >> >> >> >> >>

InitGerenciamento ==
    /\ data \in {Missing, json_dump(LegacyStore)}
    /\ origens_config \in {File(<<JUNK>>)}
                            \cup {json_dump(o) : o \in OrigensStores \ {<<>>}}
    /\ products = <<>> /\ history = Missing /\ call = NoCall
    /\ run = ManagementPage("", GerenciamentoWidgets("none", <<>>, NoSelection,
                                                      "", ZERO), <<>>, <<>>, 0)

NextGerenciamento ==
    \/ Gerenciamento
    \/ AdicionarFilial
    \/ AdicionarCenario
    \/ AdicionarOrigem
    \/ SelecioneAFilial
    \/ SelecioneOCenario
    \/ ValorFixo
    \/ SimuladorDaFilial

SpecGerenciamento == InitGerenciamento /\ [][NextGerenciamento]_vars

(***************************************************************************)
(* Login, sidebar and access control (DEV).  st.session_state holds        *)
(* authenticated, user_role and module for the whole session; every        *)
(* interaction reruns the script from the top.                             *)
(***************************************************************************)
USUARIOS ==
    [admin |-> [password |-> "adminpass", role |-> "Administrador"],
     usuario |-> [password |-> "userpass", role |-> "Usuário"]]

SIMULADOR == "Simulador de Cenários"
HISTORICO == "Histórico de Simulações"
GERENCIAMENTO == "Gerenciamento"
Modules == {SIMULADOR, HISTORICO, GERENCIAMENTO}

\* if "authenticated" not in st.session_state: ...
NewSessionState == [authenticated |-> FALSE, user_role |-> "None", module |-> SIMULADOR]

\* The management module is served to every role.
acesso_negado_sem_controle(module_selected, user_role) == FALSE

\* if module_selected == "Gerenciamento" and user_role != "Administrador":
acesso_negado(module_selected, user_role) ==
    module_selected = GERENCIAMENTO /\ user_role # "Administrador"

\* The outcome of one run: the session state it leaves, what it rendered
\* (the login screen, the access-denied error or the content of a module),
\* the buttons it showed, and the interaction that triggered it.
SessionPage(ss, rendered, buttons, click, username, password, message) ==
    [authenticated |-> ss.authenticated, user_role |-> ss.user_role,
     module |-> ss.module, rendered |-> rendered, buttons |-> buttons,
     click |-> click, username |-> username, password |-> password,
     message |-> message]

\* "Tela de Login": the run ends in st.stop() whether or not the login
\* succeeded.
login_screen(ss, click, username, password) ==
    IF click = "Entrar"
    THEN IF username \in DOMAIN USUARIOS /\ password = USUARIOS[username].password
         THEN SessionPage([ss EXCEPT !.authenticated = TRUE,
                                     !.user_role = USUARIOS[username].role],
                          "login", {"Entrar"}, click, username, password,
                          "Login efetuado com sucesso!")
         ELSE SessionPage(ss, "login", {"Entrar"}, click, username, password,
                          "Usuário ou senha incorretos!")
    ELSE SessionPage(ss, "login", {"Entrar"}, click, username, password, "")

\* The sidebar, the logout button and the access check, then the module.
sidebar(ss, click) ==
    LET module == IF click \in {SIMULADOR, HISTORICO} THEN click
                  ELSE IF click = GERENCIAMENTO /\ ss.user_role = "Administrador"
                       THEN GERENCIAMENTO
                       ELSE ss.module
        buttons == {SIMULADOR, HISTORICO, "Sair"}
                     \cup IF ss.user_role = "Administrador" THEN {GERENCIAMENTO}
                          ELSE {}
        after == IF click = "Sair"
                 THEN [authenticated |-> FALSE, user_role |-> "None",
                       module |-> module]
                 ELSE [ss EXCEPT !.module = module]
    IN IF acesso_negado(after.module, after.user_role)
       THEN SessionPage(after, "acesso_negado", buttons, click, "", "",
                        "Acesso negado. Somente Administradores podem acessar este módulo.")
       ELSE SessionPage(after, after.module, buttons, click, "", "", "")

\* One run of the script.
SessionScript(ss, click, username, password) ==
    IF ~ss.authenticated THEN login_screen(ss, click, username, password)
    ELSE sidebar(ss, click)

SessionStateOf(r) ==
    [authenticated |-> r.authenticated, user_role |-> r.user_role,
     module |-> r.module]

Usernames == {"", "admin", "usuario", "outro"}
Passwords == {"", "adminpass", "userpass", "senha"}

\* A click on "Entrar" with the texts typed in "Usuário" and "Senha".
Entrar ==
    /\ "Entrar" \in run.buttons
    /\ \E username \in Usernames, password \in Passwords :
         run' = SessionScript(SessionStateOf(run), "Entrar", username, password)
    /\ UNCHANGED <<data, products, origens_config, history, call>>

\* A click on one of the module buttons of the sidebar.
SelecioneOModulo ==
    /\ \E module \in Modules :
         /\ module \in run.buttons
         /\ run' = SessionScript(SessionStateOf(run), module, "", "")
    /\ UNCHANGED <<data, products, origens_config, history, call>>

\* A click on "Sair".
Sair ==
    /\ "Sair" \in run.buttons
    /\ run' = SessionScript(SessionStateOf(run), "Sair", "", "")
    /\ UNCHANGED <<data, products, origens_config, history, call>>

\* Any other interaction with the page: the script reruns with no button
\* clicked; the login fields keep their texts.
Rerun ==
    /\ run' = SessionScript(SessionStateOf(run), "none", run.username, run.password)
    /\ UNCHANGED <<data, products, origens_config, history, call>>

\* The page is loaded in a new browser session.
NovaSessao ==
    /\ run' = SessionScript(NewSessionState, "none", "", "")
    /\ UNCHANGED <<data, products, origens_config, history, call>>

InitLogin ==
    /\ data = StoreNoScenario /\ products = <<>> /\ origens_config = <<>>
    /\ history = Missing /\ call = NoCall
    /\ run = SessionScript(NewSessionState, "none", "", "")

NextLogin ==
    \/ Entrar
    \/ SelecioneOModulo
    \/ Sair
    \/ Rerun
    \/ NovaSessao

SpecLogin == InitLogin /\ [][NextLogin]_vars

(***************************************************************************)
(* Properties.                                                             *)
(***************************************************************************)
Selected(r) ==
    IF r.sim_mode = SIMULADOR_UNICO THEN {r.filial}
    ELSE {r.filiais_multi[i] : i \in 1..Len(r.filiais_multi)}

Ranked(r) == {<<r.df[i].filial, r.df[i].scenario>> : i \in 1..Len(r.df)}

\* C1: in both modes the insurance is 0.0015 x FOB x exchange rate and the CIF
\* is (FOB + freight x occupancy/100) x exchange rate + insurance; FOB 1000,
\* freight 200, occupancy 100 and rate 5 give insurance 7.5 and CIF 6007.5.
C1_CifComputation ==
    computed(run) =>
      LET fob == run.valor_fob_usd
          frete == run.frete_internacional_usd
          pct == run.percentual_ocupacao_conteiner
          rate == run.taxa_cambio
      IN /\ run.seguro = RMul(RMul(Rat(15, 10000), fob), rate)
         /\ run.valor_cif =
              RAdd(RAdd(RMul(fob, rate),
                        RMul(RMul(frete, rate), Rat(pct[1], 100 * pct[2]))),
                   run.seguro)
         /\ run.base_values[VALOR_CIF] = run.valor_cif
         /\ (fob = Q(1000) /\ frete = Q(200) /\ pct = Q(100) /\ rate = Q(5)
               => run.seguro = Rat(15, 2) /\ run.valor_cif = Rat(12015, 2))

C1_Witness ==
    /\ run.outcome = "ranking" /\ run.sim_mode = COMPARACAO_MULTIFILIAL
    /\ run.valor_fob_usd = Q(1000) /\ run.frete_internacional_usd = Q(200)
    /\ run.percentual_ocupacao_conteiner = Q(100) /\ run.taxa_cambio = Q(5)
    /\ run.seguro = Rat(15, 2) /\ run.valor_cif = Rat(12015, 2)

\* The contribution the specification gives a field: a fixed field (or a bare
\* number) its amount, a percentage field its base value, in local currency,
\* times its rate; times the occupancy fraction when the field is prorated.
Contribution(conf, a) ==
    IF ~conf.dict THEN conf.v
    ELSE LET d == conf.d
             amount ==
               IF d.type = "fixed" THEN d.value
               ELSE IF d.type = "percentage"
                    THEN IF d.base = VALOR_CIF
                         THEN RMul(a.base_values[VALOR_CIF], d.rate)
                         ELSE IF d.base \in {VALOR_FOB, FRETE_INTERNACIONAL}
                              THEN RMul(RMul(a.base_values[d.base], a.taxa_cambio),
                                        d.rate)
                              ELSE ZERO
                    ELSE ZERO
         IN IF d.rate_by_occupancy THEN RMul(amount, a.occupancy_fraction)
            ELSE amount

RECURSIVE Total(_, _)
Total(config, a) ==
    IF config = <<>> THEN a.base_values[VALOR_CIF]
    ELSE RAdd(Total(SubSeq(config, 1, Len(config) - 1), a),
              Contribution(config[Len(config)][2], a))

\* C2: calculate_total_cost_extended returns baseValues[CIF] plus the sum of
\* the fields' contributions, each multiplied by the occupancy fraction
\* exactly when its rate_by_occupancy flag is set; CIF 6007.5 with one fixed
\* field of 100 gives 6107.5.
C2_TotalIsCifPlusContributions ==
    (call.fn = "calculate_total_cost_extended" /\ call.returned) =>
      /\ call.result = Total(call.config, call.args)
      /\ ((/\ call.args.base_values[VALOR_CIF] = Rat(12015, 2)
           /\ call.config = << <<FieldNames[1], fixed(Q(100), FALSE)>> >>)
          => call.result = Rat(12215, 2))

C2_Witness ==
    /\ call.fn = "calculate_total_cost_extended" /\ call.returned
    /\ Len(call.config) = 2
    /\ call.config[1][2] = fixed(Q(100), TRUE)
    /\ call.config[2][2] = percentage(TENTH, VALOR_FOB, FALSE)
    /\ call.args.occupancy_fraction = Rat(1, 2)
    /\ call.args.base_values[VALOR_CIF] = Rat(11015, 2)
    /\ call.result = RAdd(Rat(11015, 2), Q(550))

\* C3: a percentage field on Valor FOB or Frete Internacional has its base
\* value multiplied by the exchange rate before the rate is applied; a
\* percentage field on Valor CIF is never multiplied by the exchange rate:
\* before proration it contributes exactly CIF x rate.
C3_ConversionAsymmetry ==
    (call.fn = "calculate_total_cost_extended" /\ call.returned) =>
      \A i \in 1..Len(call.config) :
        LET conf == call.config[i][2]
            before == IF conf.d.base = VALOR_CIF
                      THEN RMul(call.args.base_values[VALOR_CIF], conf.d.rate)
                      ELSE RMul(call.args.base_values[conf.d.base],
                                RMul(call.args.taxa_cambio, conf.d.rate))
        IN (/\ conf.dict /\ conf.d.type = "percentage"
            /\ conf.d.base \in {VALOR_CIF, VALOR_FOB, FRETE_INTERNACIONAL})
             => call.cost_values[i] =
                  IF conf.d.rate_by_occupancy
                  THEN RMul(before, call.args.occupancy_fraction)
                  ELSE before

C3_Witness ==
    /\ call.fn = "calculate_total_cost_extended" /\ call.returned
    /\ Len(call.config) = 2
    /\ call.config[1][2] = percentage(TENTH, VALOR_CIF, FALSE)
    /\ call.config[2][2] = percentage(TENTH, VALOR_FOB, FALSE)
    /\ call.args.taxa_cambio = Q(5)
    /\ call.args.base_values[VALOR_CIF] = Rat(12015, 2)
    /\ call.cost_values = <<Rat(2403, 4), Q(500)>>

\* C4: every result's final cost is the evaluator's scenario cost plus the
\* prorated freight fees plus the sum of the four product taxes; when no
\* product is selected the tax sum is 0.
C4_FinalCostComposition ==
    computed(run) =>
      LET fees == RMul(run.taxas_frete_brl,
                       Rat(run.percentual_ocupacao_conteiner[1],
                           100 * run.percentual_ocupacao_conteiner[2]))
          t == run.product_taxes
          tax_sum == IF run.has_product
                     THEN RAdd(RAdd(t["imposto_importacao"], t["ipi"]),
                               RAdd(t["pis"], t["cofins"]))
                     ELSE ZERO
      IN /\ run.total_product_taxes = tax_sum
         /\ \A i \in 1..Len(run.costs) :
              LET e == run.costs[i]
              IN /\ e.final_cost = RAdd(RAdd(e.scenario_cost, fees), tax_sum)
                 /\ e.row["Custo final"] = e.final_cost
                 /\ (~run.has_product => e.final_cost = RAdd(e.scenario_cost, fees))

C4_Witness ==
    /\ run.outcome = "ranking" /\ run.has_product
    /\ RPos(run.total_product_taxes) /\ RPos(run.taxas_frete_brl_rateada)
    /\ run.percentual_ocupacao_conteiner = Q(50)
    /\ \E i \in 1..Len(run.costs) :
         /\ RLess(RAdd(run.costs[i].scenario_cost, run.total_product_taxes),
                  run.costs[i].row["Custo final"])
         /\ RLess(run.valor_cif, run.costs[i].scenario_cost)

\* The tax the specification gives a product's rule: the base value named by
\* the rule times the rule's rate, 0 when the rule is missing.
RuleTax(product, tax, base_values) ==
    IF tax \in DOMAIN product /\ DOMAIN product[tax] # {}
    THEN LET rule == product[tax]
             base_value == IF "base" \in DOMAIN rule /\ rule.base \in DOMAIN base_values
                           THEN base_values[rule.base] ELSE ZERO
             rate == IF "rate" \in DOMAIN rule THEN rule.rate ELSE ZERO
         IN RMul(base_value, rate)
    ELSE ZERO

\* C5: calculate_product_taxes returns, for each of imposto_importacao, ipi,
\* pis and cofins, baseValues[base] x rate with no currency conversion and no
\* occupancy proration, and 0 for a tax whose rule is missing; a rate of 0.10
\* on a CIF of 6007.5 gives 600.75.
C5_ProductTaxes ==
    (call.fn = "calculate_product_taxes" /\ call.returned) =>
      /\ DOMAIN call.result = {"imposto_importacao", "ipi", "pis", "cofins"}
      /\ \A tax \in DOMAIN call.result :
           call.result[tax] = RuleTax(call.product, tax, call.args.base_values)
      /\ ((/\ call.args.base_values[VALOR_CIF] = Rat(12015, 2)
           /\ "ipi" \in DOMAIN call.product
           /\ call.product["ipi"] = [rate |-> TENTH, base |-> VALOR_CIF])
          => call.result["ipi"] = Rat(60075, 100))

C5_Witness ==
    /\ call.fn = "calculate_product_taxes" /\ call.returned
    /\ call.product = ProductPartial
    /\ call.args.taxa_cambio = Q(5)
    /\ call.args.occupancy_fraction = Rat(1, 2)
    /\ call.args.base_values[VALOR_FOB] = Q(1000)
    /\ \E tax \in DOMAIN call.result : RPos(call.result[tax])
    /\ \E tax \in DOMAIN call.result : call.result[tax] = ZERO

\* C6: the ranking is in non-decreasing order of final cost and the best
\* configuration reported is its first row, so no ranked result is cheaper
\* than the best one.
C6_RankingAscending ==
    run.outcome = "ranking" =>
      /\ Len(run.df) = Len(run.costs)
      /\ \A i \in 1..Len(run.costs) : \E j \in 1..Len(run.df) : run.df[j] = run.costs[i]
      /\ \A i, j \in 1..Len(run.df) :
           i < j => ~RLess(run.df[j].row["Custo final"], run.df[i].row["Custo final"])
      /\ run.best_scenario = run.df[1].scenario
      /\ run.best_cost = run.df[1].row["Custo final"]
      /\ (run.sim_mode = COMPARACAO_MULTIFILIAL => run.best_filial = run.df[1].filial)
      /\ \A i \in 1..Len(run.df) :
           ~RLess(run.df[i].row["Custo final"], run.best_cost)

C6_Witness ==
    /\ run.outcome = "ranking" /\ run.sim_mode = COMPARACAO_MULTIFILIAL
    /\ Len(run.df) >= 3
    /\ run.df[1] # run.costs[1]
    /\ RLess(run.best_cost, run.df[Len(run.df)].row["Custo final"])

\* The names that lower-case to "teste".
CaseVariantOfTeste(name) ==
    /\ Len(name) = 5
    /\ name[1] \in {"t", "T"} /\ name[2] \in {"e", "E"} /\ name[3] \in {"s", "S"}
    /\ name[4] \in {"t", "T"} /\ name[5] \in {"e", "E"}

ScenariosOf(f) == IF f \in Keys(data) THEN Lookup(data, f) ELSE <<>>

\* C7: a scenario is left out of the results because of its name exactly when
\* the lower-cased name equals "teste": such a scenario is never ranked, and
\* a scenario with any other name, "teste2" included, is ranked whenever one
\* of its fields has a value.
C7_TesteExclusion ==
    computed(run) =>
      \A f \in Selected(run) :
        \A i \in 1..Len(ScenariosOf(f)) :
          LET name == ScenariosOf(f)[i][1]
              config == ScenariosOf(f)[i][2]
          IN /\ CaseVariantOfTeste(name) => <<f, name>> \notin Ranked(run)
             /\ (~CaseVariantOfTeste(name)
                   /\ tem_valor(config, run.base_values, run.taxa_cambio))
                  => <<f, name>> \in Ranked(run)

C7_Witness ==
    /\ run.outcome = "ranking" /\ data = StoreMixed
    /\ \E f \in Selected(run) : <<f, teste2>> \in Ranked(run)
    /\ \E f \in Selected(run) :
         /\ \E i \in 1..Len(ScenariosOf(f)) :
              /\ ScenariosOf(f)[i][1] \in {Teste, TESTE}
              /\ tem_valor(ScenariosOf(f)[i][2], run.base_values, run.taxa_cambio)

ConfigOf(f, name) == Lookup(ScenariosOf(f), name)

\* The field's contribution before it is prorated by the occupancy.
BeforeProration(conf, r) ==
    Contribution(conf, [base_values |-> r.base_values, taxa_cambio |-> r.taxa_cambio,
                        occupancy_fraction |-> Q(1)])

\* The field's contribution as calculate_total_cost_extended adds it.
Evaluated(conf, r) ==
    cost_value(conf, r.base_values, r.taxa_cambio, r.occupancy_fraction)

\* C8 (as in the specification): every scenario in the ranking has a field
\* whose contribution as the evaluator computes it, occupancy proration
\* included, is strictly positive.
C8_Original ==
    computed(run) =>
      \A i \in 1..Len(run.df) :
        LET config == ConfigOf(run.df[i].filial, run.df[i].scenario)
        IN \E k \in 1..Len(config) : RPos(Evaluated(config[k][2], run))

\* C8: a scenario all of whose fields contribute nothing before occupancy
\* proration is skipped: every scenario in the ranking has a field whose
\* contribution before proration is strictly positive, and when the
\* occupancy is above 0 that field's evaluated contribution is strictly
\* positive too.
C8_PositiveBeforeProration ==
    computed(run) =>
      \A i \in 1..Len(run.df) :
        LET config == ConfigOf(run.df[i].filial, run.df[i].scenario)
        IN \E k \in 1..Len(config) :
             /\ RPos(BeforeProration(config[k][2], run))
             /\ RPos(run.occupancy_fraction) => RPos(Evaluated(config[k][2], run))

C8_Witness ==
    /\ run.outcome = "ranking" /\ data = StoreTies
    /\ run.percentual_ocupacao_conteiner = ZERO
    /\ <<RJ, DDC>> \in Ranked(run)
    /\ \A k \in 1..Len(ConfigOf(RJ, DDC)) :
         /\ Evaluated(ConfigOf(RJ, DDC)[k][2], run) = ZERO
         /\ RPos(BeforeProration(ConfigOf(RJ, DDC)[k][2], run))

\* No scenario of the branches the run works on is kept by the loop.
NoneQualifies(r) ==
    \A f \in Selected(r) :
      \A i \in 1..Len(ScenariosOf(f)) :
        \/ CaseVariantOfTeste(ScenariosOf(f)[i][1])
        \/ \A k \in 1..Len(ScenariosOf(f)[i][2]) :
             ~RPos(BeforeProration(ScenariosOf(f)[i][2][k][2], r))

\* C9 (as in the specification): whenever no scenario qualifies, the case of
\* no branches included, the run that has worked on the branches ends in the
\* 'no configuration found' outcome with an empty ranking and no save button.
C9_Original ==
    (run.outcome \notin {"none", "selecione_filial"} /\ NoneQualifies(run)) =>
      /\ run.outcome = "nenhuma_configuracao"
      /\ run.df = <<>> /\ ~run.save_button

\* C9: a run in which no scenario qualifies has an empty ranking, offers no
\* save button and leaves the history as it is; it ends in the 'no
\* configuration found' warning when there are branches (and, in the
\* multi-branch mode, one is selected), in the 'no branch registered' warning
\* when there are none.
C9_NoQualifyingScenario ==
    [][(run'.outcome # "none" /\ NoneQualifies(run')) =>
         /\ run'.costs = <<>> /\ run'.df = <<>>
         /\ ~run'.save_button /\ ~run'.salvo
         /\ history' = history
         /\ run'.outcome =
              IF data = <<>> THEN "nenhuma_filial"
              ELSE IF run'.sim_mode = COMPARACAO_MULTIFILIAL
                        /\ run'.filiais_multi = <<>>
                   THEN "selecione_filial"
                   ELSE "nenhuma_configuracao"]_vars

C9_Witness ==
    /\ data = StoreOnlyTeste
    /\ run.outcome = "nenhuma_configuracao"
    /\ run.sim_mode = COMPARACAO_MULTIFILIAL /\ Len(run.filiais_multi) = 2
    /\ run.df = <<>> /\ ~run.save_button /\ history \in HistoryFiles

UNIT_COLUMN == "Custo Unitário Final"

\* The row has a unit final cost exactly when quantidade > 0, and it is the
\* row's final cost divided by quantidade.
UnitCostRight(row, quantidade) ==
    /\ UNIT_COLUMN \in DOMAIN row <=> RPos(quantidade)
    /\ UNIT_COLUMN \in DOMAIN row =>
         /\ row[UNIT_COLUMN] # ZeroDivisionError
         /\ RMul(row[UNIT_COLUMN], quantidade) = row["Custo final"]

\* C10: a result row, on the screen or saved in the history, has a unit
\* final cost exactly when quantity > 0 and it equals final cost / quantity;
\* a saved single-branch record has the best scenario's unit cost on the
\* same condition; with quantity 0 nothing is divided.
C10_UnitFinalCost ==
    /\ \A i \in 1..Len(run.costs) :
         UnitCostRight(run.costs[i].row, run.quantidade)
    /\ \A n \in 1..Len(load_history(history).value) :
         LET rec == load_history(history).value[n]
         IN /\ \A i \in 1..Len(rec.results) :
                 UnitCostRight(rec.results[i][2], rec.quantidade)
            /\ ~rec.multi_comparison =>
                 /\ "custo_unitario_melhor" \in DOMAIN rec <=> RPos(rec.quantidade)
                 /\ "custo_unitario_melhor" \in DOMAIN rec =>
                      /\ rec.custo_unitario_melhor # ZeroDivisionError
                      /\ RMul(rec.custo_unitario_melhor, rec.quantidade) = rec.best_cost

C10_Witness ==
    /\ Len(load_history(history).value) = 1
    /\ ~load_history(history).value[1].multi_comparison
    /\ load_history(history).value[1].quantidade = Q(2)
    /\ "custo_unitario_melhor" \in DOMAIN load_history(history).value[1]
    /\ RPos(load_history(history).value[1].custo_unitario_melhor)
    /\ run.outcome = "ranking" /\ run.quantidade = ZERO
    /\ \A i \in 1..Len(run.costs) : UNIT_COLUMN \notin DOMAIN run.costs[i].row

\* The numbers of the run r as the record rec stores them.
StoresRun(rec, r) ==
    /\ rec.valor_unit_fob_usd = r.valor_unit_fob_usd
    /\ rec.quantidade = r.quantidade
    /\ rec.valor_fob_usd = r.valor_fob_usd
    /\ rec.frete_internacional_usd = r.frete_internacional_usd
    /\ rec.percentual_ocupacao_conteiner = r.percentual_ocupacao_conteiner
    /\ rec.frete_internacional_usd_rateado = r.frete_internacional_usd_rateado
    /\ rec.taxas_frete_brl = r.taxas_frete_brl
    /\ rec.taxas_frete_brl_rateada = r.taxas_frete_brl_rateada
    /\ rec.taxa_cambio = r.taxa_cambio
    /\ rec.seguro_0_15_valor_fob = r.seguro
    /\ rec.valor_cif = r.valor_cif
    /\ rec.best_scenario = r.best_scenario
    /\ rec.best_cost = r.best_cost
    /\ rec.final_cost_com_impostos = r.best_cost
    /\ rec.multi_comparison = (r.sim_mode = COMPARACAO_MULTIFILIAL)
    /\ Len(rec.results) = Len(r.costs)
    /\ \A i \in 1..Len(r.costs) :
         LET shown == IF rec.multi_comparison THEN r.df[i].row ELSE r.costs[i].row
         IN \A c \in DOMAIN shown : rec.results[i][2][c] = shown[c]
    /\ r.has_product => rec.product_taxes = r.product_taxes

\* C11: a save appends: the history read back after the save is the history
\* read before it with one record added at the end, the earlier records are
\* unchanged, and the new record stores the numbers of the run that saved it.
C11_SaveAppends ==
    [][history' # history =>
         LET before == load_history(history).value
             after == load_history(history').value
         IN /\ Len(after) = Len(before) + 1
            /\ \A n \in 1..Len(before) : after[n] = before[n]
            /\ after = Append(before, after[Len(after)])
            /\ run'.salvo
            /\ StoresRun(after[Len(after)], run')]_vars

C11_Witness ==
    LET h == load_history(history).value
    IN /\ Len(h) = 2 /\ h[1] = OldRecord
       /\ run.salvo /\ run.sim_mode = COMPARACAO_MULTIFILIAL
       /\ h[2].multi_comparison
       /\ h[2].quantidade = Q(2) /\ h[2].valor_fob_usd = Q(1000)
       /\ RLess(h[2].valor_cif, h[2].best_cost)
       /\ StoresRun(h[2], run)

\* The file holds nothing but white space.
Blank(file) == file.exists /\ \A i \in 1..Len(file.text) : file.text[i].t = "ws"

\* The file holds one JSON document and white space.
WellFormed(file) ==
    /\ file.exists
    /\ \E i \in 1..Len(file.text) :
         /\ file.text[i].t = "doc"
         /\ \A j \in 1..Len(file.text) : j # i => file.text[j].t = "ws"

\* C12 (as in the specification): load_data never raises, and returns an
\* empty map when the file is missing or its content is not parseable.
C12_Original ==
    (call.fn = "load_data" /\ call.returned) =>
      /\ call.outcome.raised = ""
      /\ ~WellFormed(call.file) => call.outcome = Returned(<<>>)

BASE_NAMES == {VALOR_CIF, VALOR_FOB, FRETE_INTERNACIONAL}

\* C14: a percentage field whose base is not one of the three base names
\* contributes 0; a tax rule whose base is not one of them, and a tax the
\* product has no entry for, give the amount 0; the call returns.
C14_MissingLookupsAreZero ==
    /\ (call.fn = "calculate_total_cost_extended" /\ call.returned) =>
         \A i \in 1..Len(call.config) :
           LET conf == call.config[i][2]
           IN (/\ conf.dict /\ conf.d.type = "percentage"
               /\ conf.d.base \notin BASE_NAMES)
                => call.cost_values[i] = ZERO
    /\ (call.fn = "calculate_product_taxes" /\ call.returned) =>
         \A tax \in {"imposto_importacao", "ipi", "pis", "cofins"} :
           /\ tax \in DOMAIN call.result
           /\ tax \notin DOMAIN call.product => call.result[tax] = ZERO
           /\ (/\ tax \in DOMAIN call.product
               /\ "base" \in DOMAIN call.product[tax]
               /\ call.product[tax].base \notin BASE_NAMES)
                => call.result[tax] = ZERO

C14_Witness ==
    /\ call.fn = "calculate_product_taxes" /\ call.returned
    /\ call.product.descricao = "C"
    /\ call.product["pis"].base \notin BASE_NAMES
    /\ RPos(call.args.base_values[VALOR_CIF])
    /\ call.result["pis"] = ZERO
    /\ RPos(call.result["imposto_importacao"])

\* seq without its i-th element.
RemoveAt(seq, i) == SubSeq(seq, 1, i - 1) \o SubSeq(seq, i + 1, Len(seq))

\* C15: a field stored as a bare number contributes exactly that number,
\* whatever the occupancy fraction and the exchange rate: the total is the
\* total of the other fields plus the number.
C15_BareNumberIsFixed ==
    (call.fn = "calculate_total_cost_extended" /\ call.returned) =>
      \A i \in 1..Len(call.config) :
        ~call.config[i][2].dict =>
          /\ call.cost_values[i] = call.config[i][2].v
          /\ call.result = RAdd(Total(RemoveAt(call.config, i), call.args),
                                call.config[i][2].v)

C15_Witness ==
    /\ call.fn = "calculate_total_cost_extended" /\ call.returned
    /\ Len(call.config) = 2
    /\ call.config[1][2] = Num(Q(50))
    /\ call.config[2][2] = fixed(Q(100), TRUE)
    /\ call.args.occupancy_fraction = Rat(1, 2)
    /\ call.args.taxa_cambio = Q(2)
    /\ call.args.base_values[VALOR_CIF] = Rat(2203, 1)
    /\ call.cost_values = <<Q(50), Q(50)>>
    /\ call.result = Q(2303)

\* The call repeats an earlier one with one fixed field doubled.
Doubled == call.fn = "calculate_total_cost_extended" /\ call.returned
             /\ call.before # NoCall /\ call.before.change = "doubled"

\* C16 (as in the specification): doubling the amount of one fixed field
\* changes the total by exactly the field's original amount.
C16_Original ==
    Doubled =>
      call.result = RAdd(call.before.result,
                         call.before.config[call.before.field][2].d.value)

\* C16: doubling the amount of one fixed field, all else equal, changes the
\* total by exactly the field's original contribution: its amount, times the
\* occupancy fraction when the field is prorated by occupancy.
C16_DoublingAddsContribution ==
    Doubled =>
      LET d == call.before.config[call.before.field][2].d
          contribution == IF d.rate_by_occupancy
                          THEN RMul(d.value, call.args.occupancy_fraction)
                          ELSE d.value
      IN /\ call.config[call.before.field][2].d.value = RAdd(d.value, d.value)
         /\ \A i \in 1..Len(call.config) :
              i # call.before.field => call.config[i] = call.before.config[i]
         /\ call.args = call.before.args
         /\ call.result = RAdd(call.before.result, contribution)
         /\ ~d.rate_by_occupancy => call.result = RAdd(call.before.result, d.value)

C16_Witness ==
    /\ Doubled
    /\ Len(call.config) = 2 /\ call.before.field = 1
    /\ call.before.config[1][2] = fixed(Q(100), TRUE)
    /\ call.config[1][2] = fixed(Q(200), TRUE)
    /\ call.args.occupancy_fraction = Rat(1, 2)
    /\ call.result = RAdd(call.before.result, Q(50))

\* C17: a percentage field on Valor FOB that is not prorated contributes the
\* same amount for every occupancy fraction, the FOB value, the exchange rate
\* and the field being the same.
C17_FobFieldIgnoresOccupancy ==
    (/\ call.fn = "calculate_total_cost_extended" /\ call.returned
     /\ call.before # NoCall /\ call.before.change = "occupancy") =>
      /\ call.args.occupancy_fraction # call.before.args.occupancy_fraction
      /\ call.config = call.before.config
      /\ \A i \in 1..Len(call.config) :
           LET conf == call.config[i][2]
           IN (/\ conf.dict /\ conf.d.type = "percentage"
               /\ conf.d.base = VALOR_FOB /\ ~conf.d.rate_by_occupancy)
                => call.cost_values[i] = call.before.cost_values[i]

C17_Witness ==
    /\ call.fn = "calculate_total_cost_extended" /\ call.returned
    /\ call.before # NoCall /\ call.before.change = "occupancy"
    /\ Len(call.config) = 1
    /\ call.config[1][2] = percentage(TENTH, VALOR_FOB, FALSE)
    /\ call.before.args.occupancy_fraction = Q(1)
    /\ call.args.occupancy_fraction = ZERO
    /\ call.args.base_values[VALOR_CIF] # call.before.args.base_values[VALOR_CIF]
    /\ call.cost_values = <<Q(500)>> /\ call.before.cost_values = <<Q(500)>>

\* The position of a ranked row in the order in which it was collected.
Collected(r, e) == CHOOSE i \in 1..Len(r.costs) : r.costs[i] = e

\* C18: two ranked scenarios with equal final cost appear in the order in
\* which they were collected (branch selection order, then scenario order
\* within the branch).
C18_Original ==
    run.outcome = "ranking" =>
      \A i, j \in 1..Len(run.df) :
        (/\ i < j
         /\ run.df[i].row["Custo final"] = run.df[j].row["Custo final"])
          => Collected(run, run.df[i]) < Collected(run, run.df[j])

\* C19: after a click on 'Limpar Histórico' followed by a tick of the
\* confirmation checkbox, the persisted history is the empty sequence.
C19_Original ==
    (/\ run.script = "PRD" /\ run.interaction = "confirmar"
     /\ run.outcome # "erro")
      => load_history_PRD(history).value = <<>>

\* The number of times the record e occurs in the history h.
Occurrences(h, e) == Cardinality({i \in 1..Len(h) : h[i] = e})

Persisted(s) ==
    {i \in 1..Len(run[s].saved) :
       Occurrences(load_history(history).value, run[s].saved[i]) > 0}

\* C21: a save writes back the copy that the saving session loaded, with its
\* own record appended (last write wins): a record that another session
\* saved after that load is absent from the store afterwards.  The same
\* holds for a branch added to the configuration.
C21_LastWriteWins ==
    [][\A s \in Sessions :
         /\ (run[s].pc = "history_loaded" /\ run'[s].pc = "idle") =>
              /\ load_history(history').value
                   = Append(run[s].history, run'[s].saved[Len(run'[s].saved)])
              /\ \A i \in 1..Len(load_history(history).value) :
                   LET r == load_history(history).value[i]
                   IN Occurrences(run[s].history, r) = 0
                        => Occurrences(load_history(history').value, r) = 0
         /\ (run[s].pc = "data_loaded" /\ run'[s].pc = "idle"
               /\ run'[s].added # run[s].added) =>
              load_data(data').value
                = Append(run[s].data, <<SessionFilial(s), <<>>>>)
      ]_vars

C21_Witness ==
    /\ run[1].pc = "idle" /\ run[2].pc = "idle"
    /\ Len(run[1].saved) = 1 /\ Len(run[2].saved) = 1
    /\ Persisted(1) = {} /\ Persisted(2) = {1}
    /\ run[1].added = <<MG>> /\ run[2].added = <<BA>>
    /\ MG \notin Keys(load_data(data).value)
    /\ BA \in Keys(load_data(data).value)

\* The rate of a tax of the product as a fraction, 0 when it is missing.
Aliquota(produto_info, tax) ==
    IF tax \in DOMAIN produto_info THEN RMul(produto_info[tax], Rat(1, 100))
    ELSE ZERO

\* C22: in the PRD script II = CIF x ii%, IPI = (CIF + II) x ipi%,
\* PIS = (CIF + II + IPI) x pis%, COFINS = (CIF + II + IPI) x cofins%, and
\* Total_Impostos is the sum of exactly these four; a missing rate is 0.
C22_ChainedTaxes ==
    (call.fn = "calcular_impostos_produto" /\ call.returned) =>
      LET cif == call.valor_cif
          t == call.result
      IN /\ DOMAIN t = {"II", "IPI", "PIS", "COFINS", "Total_Impostos"}
         /\ t.II = RMul(cif, Aliquota(call.produto_info, "ii"))
         /\ t.IPI = RMul(RAdd(cif, t.II), Aliquota(call.produto_info, "ipi"))
         /\ t.PIS = RMul(RAdd(RAdd(cif, t.II), t.IPI),
                         Aliquota(call.produto_info, "pis"))
         /\ t.COFINS = RMul(RAdd(RAdd(cif, t.II), t.IPI),
                            Aliquota(call.produto_info, "cofins"))
         /\ t.Total_Impostos = RSum(<<t.II, t.IPI, t.PIS, t.COFINS>>)

C22_Witness ==
    /\ call.fn = "calcular_impostos_produto" /\ call.returned
    /\ call.valor_cif = Q(1000)
    /\ call.produto_info.descricao = "A"
    /\ call.result.II = Q(100) /\ call.result.IPI = Q(165)
    /\ call.result.PIS = Rat(26565, 1000)
    /\ call.result.COFINS = Rat(1220725, 10000)
    /\ call.result.Total_Impostos = Rat(4136375, 10000)

SEVEN_FIELDS ==
    <<"Frete rodoviário", "Armazenagem", "Taxa MAPA", "Taxas Porto Seco",
      "Desova EAD", "Taxa cross docking", "Taxa DDC">>

\* The name has "DI" or "DDC" somewhere in it, in capitals.
NamesDIorDDC(scenario) ==
    \E i, j \in 1..Len(scenario) : SubSeq(scenario, i, j) \in {DI, DDC}

\* C30: in the early revisions the total is CIF + the seven configured cost
\* fields (0 for a missing one) + ICMS, the ICMS is 18 % of the CIF exactly
\* when the scenario name contains "DI" or "DDC" (case-sensitive) and 0
\* otherwise, and CIF = (FOB + international freight) x rate + freight fees.
C30_EarlyTotalCost ==
    (call.fn = "calculate_total_cost" /\ call.returned) =>
      LET cif == RAdd(RMul(RAdd(call.trade.valor_fob_usd,
                                call.trade.frete_internacional_usd),
                           call.trade.taxa_cambio),
                      call.trade.taxas_frete_brl)
          seven == RSum([i \in 1..Len(SEVEN_FIELDS) |->
                           IF SEVEN_FIELDS[i] \in DOMAIN call.fields
                           THEN call.fields[SEVEN_FIELDS[i]] ELSE ZERO])
          icms == IF NamesDIorDDC(call.scenario) THEN RMul(cif, Rat(18, 100))
                  ELSE ZERO
      IN /\ call.valor_cif = cif
         /\ call.result = <<RAdd(RAdd(cif, seven), icms), icms>>

C30_Witness ==
    /\ call.fn = "calculate_total_cost" /\ call.returned
    /\ call.scenario = <<"X", "D", "I", "2">>
    /\ DOMAIN call.fields = {"Armazenagem", "ICMS", "Valor CIF", "Seguro"}
    /\ call.valor_cif = Q(6300)
    /\ call.result = <<Q(7504), Q(1134)>>

\* C25: with the total-value mode selected the FOB value is the amount
\* entered, the quantity is 1 and the unit FOB 0; with the unit x quantity
\* mode selected FOB = unit FOB x quantity; in both simulators.
C25_Original ==
    computed(run) =>
      /\ run.modo_valor_fob \in {"Valor total", "Valor Total"} =>
           /\ run.valor_fob_usd = run.widgets.valor_fob_usd
           /\ run.quantidade = Q(1)
           /\ run.valor_unit_fob_usd = ZERO
      /\ run.modo_valor_fob = "Unitário × Quantidade" =>
           run.valor_fob_usd = RMul(run.widgets.valor_unit_fob_usd,
                                    run.widgets.quantidade)

\* The power of the occupancy fraction in the contribution of a field.
Squared(x) == RMul(x, x)

\* C26: the base value Frete Internacional is the freight times the
\* occupancy fraction, so a ranked scenario's percentage field on that base
\* amounts to freight x occupancy^2 x exchange rate x rate when the field is
\* prorated and to freight x occupancy x exchange rate x rate when it is not;
\* the scenario cost is the CIF plus the amounts of its fields.
C26_FreightProratedTwice ==
    run.outcome = "ranking" =>
      /\ run.base_values[FRETE_INTERNACIONAL]
           = RMul(run.frete_internacional_usd, run.occupancy_fraction)
      /\ \A k \in 1..Len(run.df) :
           LET e == run.df[k]
               config == ConfigOf(e.filial, e.scenario)
               occ == RMul(run.percentual_ocupacao_conteiner, Rat(1, 100))
               amount(i) ==
                 LET conf == config[i][2]
                 IN IF conf.dict /\ conf.d.type = "percentage"
                       /\ conf.d.base = FRETE_INTERNACIONAL
                    THEN RMul(RMul(RMul(run.frete_internacional_usd,
                                        IF conf.d.rate_by_occupancy
                                        THEN Squared(occ) ELSE occ),
                                   run.taxa_cambio), conf.d.rate)
                    ELSE Contribution(conf, run)
           IN e.scenario_cost
                = RAdd(run.valor_cif, RSum([i \in 1..Len(config) |-> amount(i)]))

C26_Witness ==
    /\ run.outcome = "ranking" /\ run.sim_mode = SIMULADOR_UNICO
    /\ data = StoreMixed /\ run.filial = RJ
    /\ run.frete_internacional_usd = Q(200)
    /\ run.percentual_ocupacao_conteiner = Q(50) /\ run.taxa_cambio = Q(5)
    /\ \E i, j \in 1..Len(run.df) :
         /\ run.df[i].scenario = DI /\ run.df[i].row["Taxa DDC"] = Q(25)
         /\ run.df[j].scenario = DDC /\ run.df[j].row["Taxa MAPA"] = Q(50)

\* The records of h carry strictly increasing timestamps: the order in which
\* successive saves append them.
AppendOrder(h) == \A i, j \in 1..Len(h) : i < j => h[i].timestamp < h[j].timestamp

\* The records of h, all different, appear in g in the same relative order.
SameOrder(h, g) ==
    \A i, j \in 1..Len(h) :
        i < j => \E a, b \in 1..Len(g) : a < b /\ g[a] = h[i] /\ g[b] = h[j]

\* C29: a deletion keeps the surviving records of the persisted history in
\* the order in which they were appended.
C29_Original ==
    [][(run'.script = "DEV" /\ run'.interaction = "excluir"
          /\ AppendOrder(load_history(history).value))
         => SameOrder(load_history(history').value, load_history(history).value)]_vars

\* Every origin of old is an origin of new with the same freight and fees.
OrigensKept(old, new) ==
    \A k \in Keys(old) : k \in Keys(new) /\ Lookup(new, k) = Lookup(old, k)

\* C27: "Adicionar Origem" with a name whose stripped form is an existing
\* origin leaves the origins store unchanged; with another name it adds
\* exactly one origin; in both cases every existing origin keeps its freight
\* and fee values.
C27_Original ==
    [][run'.interaction = "Adicionar Origem" =>
         LET old == load_origens_config(origens_config).value
             new == load_origens_config(origens_config').value
             name == strip(run'.typed)
         IN /\ OrigensKept(old, new)
            /\ name \in Keys(old) => new = old
            /\ (name \notin Keys(old) /\ name # <<>>) =>
                 Keys(new) = Keys(old) \cup {name}]_vars

\* A cost field that is 0: the bare number, or the dict the tab "Campos de
\* Custo" rewrites it to.
FieldIsZero(conf) == conf = Num(ZERO) \/ conf = fixed(ZERO, FALSE)

\* config has the eight default fields, as "Adicionar Cenário" creates them.
CreatedScenario(config) == KeyList(config) = DEFAULT_FIELD_NAMES

AllZero(config) == \A i \in 1..Len(config) : FieldIsZero(config[i][2])

\* C28: "Adicionar Filial" and "Adicionar Cenário" leave the configuration
\* unchanged when the stripped name is empty or exists already; otherwise the
\* configuration gains exactly one entry at the end (a branch with no scenario,
\* or a scenario with the eight default fields, all 0) and nothing else
\* changes; a scenario with the default fields all 0 is in no ranking, and
\* is ranked once one of its fields holds a positive value.
C28_AddBranchOrScenario ==
    [][LET old == load_data(data).value
           new == load_data(data').value
           name == strip(run'.typed)
       IN /\ run'.interaction = "Adicionar Filial" =>
               IF name = <<>> \/ name \in Keys(old) THEN new = old
               ELSE new = Append(old, <<name, <<>> >>)
          /\ run'.interaction = "Adicionar Cenário" =>
               LET branch == run'.filial_select
               IN IF name = <<>> \/ name \in Keys(Lookup(old, branch))
                  THEN new = old
                  ELSE /\ KeyList(new) = KeyList(old)
                       /\ \A f \in Keys(old) \ {branch} :
                            Lookup(new, f) = Lookup(old, f)
                       /\ SubSeq(Lookup(new, branch), 1, Len(Lookup(old, branch)))
                            = Lookup(old, branch)
                       /\ Len(Lookup(new, branch)) = Len(Lookup(old, branch)) + 1
                       /\ name \in Keys(Lookup(new, branch))
                       /\ CreatedScenario(Lookup(Lookup(new, branch), name))
                       /\ AllZero(Lookup(Lookup(new, branch), name))
          /\ run'.page = "Simulador de Cenários" =>
               LET scenarios == Lookup(new, run'.filial_select)
               IN \A i \in 1..Len(scenarios) :
                    CreatedScenario(scenarios[i][2]) =>
                      ((\E k \in 1..Len(run'.ranked) :
                           run'.ranked[k] = scenarios[i][1])
                         <=> ~AllZero(scenarios[i][2]))]_vars

C28_Witness ==
    /\ run.page = "Simulador de Cenários" /\ run.adicoes = 1
    /\ run.filial_select = RJ /\ run.ranked = <<DI>>
    /\ LET scenarios == Lookup(load_data(data).value, RJ)
       IN /\ KeyList(scenarios) = <<DI, DDC>>
          /\ CreatedScenario(Lookup(scenarios, DDC))
          /\ AllZero(Lookup(scenarios, DDC))

\* C23: the content of the management module is rendered only in a run
\* whose user_role is Administrador, whatever logins, logouts and sidebar
\* clicks came before.
C23_ManagementOnlyForAdmin ==
    run.rendered = GERENCIAMENTO => run.user_role = "Administrador"

C23_Witness ==
    /\ run.authenticated /\ run.user_role = "Usuário"
    /\ run.module = GERENCIAMENTO /\ run.rendered = "acesso_negado"

\* C24: from the click on 'Sair' until a login succeeds no run renders the
\* content of a module, the run of the click included.
C24_Original ==
    ~run.authenticated => run.rendered \notin Modules

====
